---- MODULE Spec2Model ----
(***************************************************************************)
(* A model of the text buffer of lite-cpp (src/lite-cpp/src/Buffer.cpp),   *)
(* of its undo/redo log (src/lite-cpp/src/Change.cpp) and of the scripting *)
(* language of the editor (src/lite-cpp/src/lang).                         *)
(*                                                                         *)
(* A std::string is a sequence of one-character strings, a line array a    *)
(* sequence of such sequences.  Rows and columns are 0-based as in the     *)
(* source; TLA+ sequences are 1-based, so row r is m_lines[r + 1].         *)
(* A std::optional is the empty sequence (nullopt) or a one-element        *)
(* sequence; an optional position is <<>> or the pair <<row, col>>.        *)
(***************************************************************************)
EXTENDS Integers, Sequences, FiniteSets, TLC

VARIABLES
    buf,      \* the Buffer object (a record of its member fields)
    pre,      \* the Buffer as it was before the last public operation
    last,     \* the last public operation and its arguments
    origin,   \* the Buffer as constructed
    fresh,    \* TRUE while neither undo() nor redo() has been called
    untouched, \* TRUE while only cursor, selection, undo and redo calls were made
    clean,    \* the line array at the last successful save, or as constructed
    steps,    \* number of public operations performed so far
    envs,     \* the Environment objects alive (a heap; a shared_ptr is an index)
    envPre,   \* the Environment objects as they were before the last call
    envLast,  \* the last call on an Environment, its arguments and its result
    ed,       \* the Editor object: its buffer list and current buffer index
    edPre,    \* the Editor as it was before the last builtin call
    edLast,   \* the last builtin call, its argument nodes and its outcome
    edSteps,  \* number of builtin calls made so far
    input,    \* the argument a pure function of the language is applied to
    output    \* what the function returned for it

bufVars == <<buf, pre, last, origin, fresh, untouched, clean, steps>>
envVars == <<envs, envPre, envLast>>
edVars == <<ed, edPre, edLast, edSteps>>
probeVars == <<input, output>>
vars == <<buf, pre, last, origin, fresh, untouched, clean, steps,
          envs, envPre, envLast, ed, edPre, edLast, edSteps, input, output>>

\* no Environment exists (the specification of the Buffer alone)
EnvIdle == envs = <<>> /\ envPre = <<>> /\ envLast = [op |-> "none"]

\* no Editor exists
EdIdle == ed = <<>> /\ edPre = <<>> /\ edLast = [op |-> "none"] /\ edSteps = 0

\* no pure function is being applied
ProbeIdle == input = <<>> /\ output = <<>>

----------------------------------------------------------------------------
(* Bounds of the model *)

MaxOps == 3          \* public operations per behaviour
MaxFileLen == 3      \* bytes of the file a Buffer is constructed from
MaxArg == 2          \* largest row/col handed to setCursorPosition

NL == "\n"
CR == "\r"
Chars == {"a", "b"}                  \* characters typed with insertChar
FileChars == {"a", "b", NL}          \* bytes a file is made of
Texts == { <<>>, <<"a", "b">>, <<"b", NL, "a">>, <<NL>> }   \* insertString arguments
Directions == {"Up", "Down", "Left", "Right", "Nowhere"}
SavePaths == {"g"}                   \* paths handed to saveAs

----------------------------------------------------------------------------
(* std:: helpers *)

Min(a, b) == IF a < b THEN a ELSE b
Max(a, b) == IF a > b THEN a ELSE b

npos == -1

\* i < n and i >= n where i is an int and n a size_t: the int is converted
\* to unsigned, so a negative i compares as a huge value.
ULess(i, n) == i >= 0 /\ i < n
UGeq(i, n) == i < 0 \/ i >= n

\* std::string::find(ch, start): 0-based position of the first ch at or
\* after start, npos when there is none.
RECURSIVE find(_, _, _)
find(text, ch, start) ==
    IF start >= Len(text) THEN npos
    ELSE IF text[start + 1] = ch THEN start
    ELSE find(text, ch, start + 1)

\* std::string::substr(pos, n) and substr(pos)
substr(s, pos, n) == SubSeq(s, pos + 1, Min(pos + n, Len(s)))
substrFrom(s, pos) == SubSeq(s, pos + 1, Len(s))
\* std::string::insert(pos, t), erase(pos, 1), erase(pos)
strInsert(s, pos, t) == SubSeq(s, 1, pos) \o t \o SubSeq(s, pos + 1, Len(s))
strErase1(s, pos) == SubSeq(s, 1, pos) \o SubSeq(s, pos + 2, Len(s))
strEraseFrom(s, pos) == SubSeq(s, 1, pos)

\* std::vector::insert(begin() + i, x) and erase(begin() + i)
vecInsert(v, i, x) == SubSeq(v, 1, i) \o <<x>> \o SubSeq(v, i + 1, Len(v))
vecErase(v, i) == SubSeq(v, 1, i) \o SubSeq(v, i + 2, Len(v))

----------------------------------------------------------------------------
(* Change records (Change.hpp) *)

InsertChange(row, col, text) ==
    [kind |-> "Insert", m_row |-> row, m_col |-> col, m_text |-> text]
DeleteChange(row, col, text) ==
    [kind |-> "Delete", m_row |-> row, m_col |-> col, m_deletedText |-> text]
MoveChange(fromRow, fromCol, toRow, toCol) ==
    [kind |-> "Move", m_fromRow |-> fromRow, m_fromCol |-> fromCol,
     m_toRow |-> toRow, m_toCol |-> toCol]
SelectChange(oldStart, newStart) ==
    [kind |-> "Select", m_oldSelectionStart |-> oldStart,
     m_newSelectionStart |-> newStart]
UnselectChange(oldStart) ==
    [kind |-> "Unselect", m_oldSelectionStart |-> oldStart]

----------------------------------------------------------------------------
(* Buffer: getters *)

getLineCount(b) == Len(b.m_lines)
hasSelection(b) == b.m_selectionStart # <<>>
Line(b, row) == b.m_lines[row + 1]
LineLen(b, row) == Len(b.m_lines[row + 1])
RowInRange(b, row) == row >= 0 /\ row < Len(b.m_lines)

\* fixCursor without the upper clamp of the column
fixCursorNoColumnClamp(b) ==
    LET row == Max(0, Min(b.m_cursorRow, getLineCount(b) - 1))
    IN [b EXCEPT !.m_cursorRow = row, !.m_cursorCol = Max(0, b.m_cursorCol)]

\* Buffer::fixCursor
fixCursor(b) ==
    LET row == Max(0, Min(b.m_cursorRow, getLineCount(b) - 1))
        col == IF RowInRange(b, row)
               THEN Max(0, Min(b.m_cursorCol, LineLen(b, row)))
               ELSE 0
    IN [b EXCEPT !.m_cursorRow = row, !.m_cursorCol = col]

\* pushUndo that keeps the redo stack
pushUndoKeepsRedo(b, change) ==
    [b EXCEPT !.m_undoStack = Append(@, change)]

\* Buffer::pushUndo
pushUndo(b, change) ==
    [b EXCEPT !.m_undoStack = Append(@, change), !.m_redoStack = <<>>]

\* setCursorPosition comparing the requested position, not the clamped one,
\* with the old position
setCursorPositionComparesRequest(b, row, col) ==
    LET oldRow == b.m_cursorRow
        oldCol == b.m_cursorCol
        b1 == fixCursor([b EXCEPT !.m_cursorRow = row, !.m_cursorCol = col])
    IN IF row # oldRow \/ col # oldCol
       THEN pushUndo(b1, MoveChange(oldRow, oldCol, b1.m_cursorRow, b1.m_cursorCol))
       ELSE b1

\* Buffer::setCursorPosition (the public setter; it is also what the
\* internal helpers and the Change classes call)
setCursorPosition(b, row, col) ==
    LET oldRow == b.m_cursorRow
        oldCol == b.m_cursorCol
        b1 == fixCursor([b EXCEPT !.m_cursorRow = row, !.m_cursorCol = col])
    IN IF b1.m_cursorRow # oldRow \/ b1.m_cursorCol # oldCol
       THEN pushUndo(b1, MoveChange(oldRow, oldCol, b1.m_cursorRow, b1.m_cursorCol))
       ELSE b1

\* Buffer::calculateSelectionRange: <<>> or <<start, end>>
calculateSelectionRange(b) ==
    IF ~hasSelection(b) THEN <<>>
    ELSE LET anchor == b.m_selectionStart
             cursor == <<b.m_cursorRow, b.m_cursorCol>>
         IN IF anchor[1] < cursor[1]
               \/ (anchor[1] = cursor[1] /\ anchor[2] < cursor[2])
            THEN <<anchor, cursor>>
            ELSE <<cursor, anchor>>

\* the loop over the intermediate full lines of Buffer::getSelectedText
RECURSIVE middleLines(_, _, _)
middleLines(b, i, endRow) ==
    IF i >= endRow THEN <<>>
    ELSE (IF RowInRange(b, i) THEN <<NL>> \o Line(b, i) ELSE <<>>)
         \o middleLines(b, i + 1, endRow)

\* Buffer::getSelectedText: <<>> (nullopt) or <<text>>
getSelectedText(b) ==
    LET range == calculateSelectionRange(b) IN
    IF range = <<>> THEN <<>>
    ELSE
      LET startRow == range[1][1]
          startCol == range[1][2]
          endRow == range[2][1]
          endCol == range[2][2]
      IN IF startRow = endRow
         THEN IF RowInRange(b, startRow) /\ startCol < endCol
              THEN LET len == LineLen(b, startRow)
                       clampedStartCol == Min(startCol, len)
                       clampedEndCol == Min(endCol, len)
                   IN IF clampedStartCol < clampedEndCol
                      THEN << substr(Line(b, startRow), clampedStartCol,
                                     clampedEndCol - clampedStartCol) >>
                      ELSE << <<>> >>
              ELSE << <<>> >>
         ELSE LET first == IF RowInRange(b, startRow)
                           THEN substrFrom(Line(b, startRow),
                                           Min(startCol, LineLen(b, startRow)))
                           ELSE <<>>
                  lastPart == IF RowInRange(b, endRow) /\ endCol > 0
                              THEN <<NL>> \o substr(Line(b, endRow), 0,
                                                    Min(endCol, LineLen(b, endRow)))
                              ELSE <<>>
              IN << first \o middleLines(b, startRow + 1, endRow) \o lastPart >>

----------------------------------------------------------------------------
(* Buffer: internal state modifiers *)

\* m_lines[m_cursorRow].insert(clampedCol, part); m_cursorCol = clampedCol + part.length()
insertPart(b, part) ==
    IF part # <<>> /\ RowInRange(b, b.m_cursorRow) /\ b.m_cursorCol >= 0
    THEN LET clampedCol == Min(b.m_cursorCol, LineLen(b, b.m_cursorRow))
         IN [b EXCEPT !.m_lines[b.m_cursorRow + 1] = strInsert(@, clampedCol, part),
                      !.m_cursorCol = clampedCol + Len(part)]
    ELSE b

\* the split of the current line that leaves the tail on the current line too
splitLineKeepsTail(b) ==
    IF RowInRange(b, b.m_cursorRow)
    THEN LET currentLine == Line(b, b.m_cursorRow)
             lineLen == Len(currentLine)
             clampedCol == Min(b.m_cursorCol, lineLen)
             cut == ULess(clampedCol, lineLen)
             nextLineContent == IF cut THEN substrFrom(currentLine, clampedCol) ELSE <<>>
         IN [b EXCEPT !.m_lines = vecInsert(@, b.m_cursorRow + 1, nextLineContent),
                      !.m_cursorRow = @ + 1,
                      !.m_cursorCol = 0]
    ELSE b

\* the split of the current line at a newline of the inserted text
splitLine(b) ==
    IF RowInRange(b, b.m_cursorRow)
    THEN LET currentLine == Line(b, b.m_cursorRow)
             lineLen == Len(currentLine)
             clampedCol == Min(b.m_cursorCol, lineLen)
             cut == ULess(clampedCol, lineLen)
             nextLineContent == IF cut THEN substrFrom(currentLine, clampedCol) ELSE <<>>
             kept == IF cut THEN strEraseFrom(currentLine, clampedCol) ELSE currentLine
         IN [b EXCEPT !.m_lines = vecInsert([@ EXCEPT ![b.m_cursorRow + 1] = kept],
                                            b.m_cursorRow + 1, nextLineContent),
                      !.m_cursorRow = @ + 1,
                      !.m_cursorCol = 0]
    ELSE b

\* the while loop of Buffer::insertTextInternal and the remaining part
RECURSIVE insertLoop(_, _, _)
insertLoop(b, text, start) ==
    LET newlinePos == find(text, NL, start) IN
    IF newlinePos # npos
    THEN insertLoop(splitLine(insertPart(b, substr(text, start, newlinePos - start))),
                    text, newlinePos + 1)
    ELSE insertPart(b, substrFrom(text, start))

\* Buffer::insertTextInternal
insertTextInternal(b, text) ==
    IF text = <<>> THEN b ELSE fixCursor(insertLoop(b, text, 0))

\* the for loop of Buffer::deleteTextInternal, with n iterations to go
RECURSIVE deleteLoop(_, _)
deleteLoop(b, n) ==
    IF n = 0 THEN b
    ELSE IF UGeq(b.m_cursorRow, Len(b.m_lines) - 1)
            /\ UGeq(b.m_cursorCol, LineLen(b, b.m_cursorRow))
    THEN b
    ELSE LET b1 ==
               IF ULess(b.m_cursorCol, LineLen(b, b.m_cursorRow))
               THEN [b EXCEPT !.m_lines[b.m_cursorRow + 1] = strErase1(@, b.m_cursorCol)]
               ELSE IF ULess(b.m_cursorRow, Len(b.m_lines) - 1)
               THEN LET nextLine == Line(b, b.m_cursorRow + 1)
                    IN [b EXCEPT !.m_lines =
                          [vecErase(@, b.m_cursorRow + 1)
                              EXCEPT ![b.m_cursorRow + 1] = @ \o nextLine]]
               ELSE b
         IN deleteLoop(fixCursor(b1), n - 1)

\* Buffer::deleteTextInternal
deleteTextInternal(b, row, col, length) ==
    IF length = 0 THEN b
    ELSE LET b1 == setCursorPosition(b, row, col)
             startRow == b1.m_cursorRow
             startCol == b1.m_cursorCol
             b2 == deleteLoop(b1, length)
         IN fixCursor([b2 EXCEPT !.m_cursorRow = startRow, !.m_cursorCol = startCol])

\* Buffer::setSelectionStartInternal, Buffer::clearSelectionInternal
setSelectionStartInternal(b, startPos) == [b EXCEPT !.m_selectionStart = startPos]
\* clearSelectionInternal that leaves the anchor set
clearSelectionInternalNoReset(b) == b
clearSelectionInternal(b) == [b EXCEPT !.m_selectionStart = <<>>]

----------------------------------------------------------------------------
(* Buffer: public editing operations *)

\* selectStart without the test for an active selection
selectStartMovesAnchor(b) ==
    LET anchor == <<b.m_cursorRow, b.m_cursorCol>>
        oldSelection == b.m_selectionStart
    IN pushUndo(setSelectionStartInternal(b, anchor),
                SelectChange(oldSelection, anchor))

\* Buffer::selectStart
selectStart(b) ==
    IF ~hasSelection(b)
    THEN LET anchor == <<b.m_cursorRow, b.m_cursorCol>>
             oldSelection == b.m_selectionStart
         IN pushUndo(setSelectionStartInternal(b, anchor),
                     SelectChange(oldSelection, anchor))
    ELSE b

\* unselect recording the change but leaving the anchor in place
unselectKeepsAnchor(b) ==
    IF hasSelection(b)
    THEN LET oldSelection == b.m_selectionStart
         IN pushUndo(b, UnselectChange(oldSelection))
    ELSE b

\* Buffer::unselect
unselect(b) ==
    IF hasSelection(b)
    THEN LET oldSelection == b.m_selectionStart
         IN pushUndo(clearSelectionInternal(b), UnselectChange(oldSelection))
    ELSE b

\* deleteSelection recording the Delete at the cursor position it was called
\* with instead of the normalized start of the selection
deleteSelectionRecordsCursor(b) ==
    LET range == calculateSelectionRange(b) IN
    IF range = <<>> THEN b
    ELSE LET startPos == range[1]
             sel == getSelectedText(b)
             deletedText == IF sel = <<>> THEN <<>> ELSE sel[1]
         IN IF deletedText = <<>>
            THEN unselect(b)
            ELSE LET b1 == deleteTextInternal(b, startPos[1], startPos[2], Len(deletedText))
                     b2 == unselect([b1 EXCEPT !.m_isEdited = TRUE])
                 IN pushUndo(b2, DeleteChange(b.m_cursorRow, b.m_cursorCol, deletedText))

\* Buffer::deleteSelection
deleteSelection(b) ==
    LET range == calculateSelectionRange(b) IN
    IF range = <<>> THEN b
    ELSE LET startPos == range[1]
             sel == getSelectedText(b)
             deletedText == IF sel = <<>> THEN <<>> ELSE sel[1]
         IN IF deletedText = <<>>
            THEN unselect(b)
            ELSE LET b1 == deleteTextInternal(b, startPos[1], startPos[2], Len(deletedText))
                     b2 == unselect([b1 EXCEPT !.m_isEdited = TRUE])
                 IN pushUndo(b2, DeleteChange(startPos[1], startPos[2], deletedText))

\* the common body of insertChar / insertNewline / insertString
insertWithUndo(b, text) ==
    LET b0 == IF hasSelection(b) THEN deleteSelection(b) ELSE b
        oldRow == b0.m_cursorRow
        oldCol == b0.m_cursorCol
        b1 == [insertTextInternal(b0, text) EXCEPT !.m_isEdited = TRUE]
    IN pushUndo(b1, InsertChange(oldRow, oldCol, text))

\* Buffer::insertChar
insertChar(b, c) == insertWithUndo(b, <<c>>)

\* Buffer::insertNewline
insertNewline(b) == insertWithUndo(b, <<NL>>)

\* Buffer::insertString
insertString(b, text) == IF text = <<>> THEN b ELSE insertWithUndo(b, text)

\* deleteCharForward that never joins lines
deleteCharForwardNoJoin(b) ==
    IF hasSelection(b) THEN deleteSelection(b)
    ELSE
      LET oldRow == b.m_cursorRow
          oldCol == b.m_cursorCol
          inLine == ULess(b.m_cursorCol, LineLen(b, b.m_cursorRow))
      IN IF ~inLine THEN b
         ELSE LET deletedText == substr(Line(b, oldRow), oldCol, 1)
                  b1 == deleteTextInternal(b, b.m_cursorRow, b.m_cursorCol, 1)
                  b2 == pushUndo([b1 EXCEPT !.m_isEdited = TRUE],
                                 DeleteChange(oldRow, oldCol, deletedText))
              IN fixCursor(setCursorPosition(b2, oldRow, oldCol))

\* Buffer::deleteCharForward
deleteCharForward(b) ==
    IF hasSelection(b) THEN deleteSelection(b)
    ELSE
      LET oldRow == b.m_cursorRow
          oldCol == b.m_cursorCol
          inLine == ULess(b.m_cursorCol, LineLen(b, b.m_cursorRow))
          atJoin == ULess(b.m_cursorRow, Len(b.m_lines) - 1)
      IN IF ~inLine /\ ~atJoin THEN b
         ELSE LET deletedText == IF inLine
                                 THEN substr(Line(b, oldRow), oldCol, 1)
                                 ELSE <<NL>>
                  b1 == deleteTextInternal(b, b.m_cursorRow, b.m_cursorCol, 1)
                  b2 == pushUndo([b1 EXCEPT !.m_isEdited = TRUE],
                                 DeleteChange(oldRow, oldCol, deletedText))
              IN fixCursor(setCursorPosition(b2, oldRow, oldCol))

\* Buffer::deleteCharBackward
deleteCharBackward(b) ==
    IF hasSelection(b) THEN deleteSelection(b)
    ELSE
      LET oldRow == b.m_cursorRow
          oldCol == b.m_cursorCol
      IN IF ~(oldCol > 0) /\ ~(oldRow > 0) THEN b
         ELSE LET deletedText == IF oldCol > 0
                                 THEN substr(Line(b, oldRow), oldCol - 1, 1)
                                 ELSE <<NL>>
                  b1 == IF oldCol > 0
                        THEN deleteTextInternal(b, oldRow, oldCol - 1, 1)
                        ELSE deleteTextInternal(b, oldRow - 1, LineLen(b, oldRow - 1), 1)
                  \* the start position is computed from m_cursorCol as it is
                  \* after the deletion, and from m_lines as they are after it
                  deleteStartRow == IF b1.m_cursorCol > 0 \/ oldRow = 0
                                    THEN oldRow ELSE oldRow - 1
                  deleteStartCol == IF b1.m_cursorCol > 0 THEN oldCol - 1
                                    ELSE IF oldRow > 0 THEN LineLen(b1, oldRow - 1)
                                    ELSE 0
              IN pushUndo([b1 EXCEPT !.m_isEdited = TRUE],
                          DeleteChange(deleteStartRow, deleteStartCol, deletedText))

\* the switch of Buffer::moveCursor with Left at column 0 going to the start,
\* not the end, of the previous line
moveInDirectionLeftToLineStart(b, dir) ==
    CASE dir = "Up" ->
           IF b.m_cursorRow > 0 THEN [b EXCEPT !.m_cursorRow = @ - 1] ELSE b
      [] dir = "Down" ->
           IF b.m_cursorRow < getLineCount(b) - 1
           THEN [b EXCEPT !.m_cursorRow = @ + 1] ELSE b
      [] dir = "Left" ->
           IF b.m_cursorCol > 0 THEN [b EXCEPT !.m_cursorCol = @ - 1]
           ELSE IF b.m_cursorRow > 0
           THEN [b EXCEPT !.m_cursorRow = @ - 1, !.m_cursorCol = 0]
           ELSE b
      [] dir = "Right" ->
           IF ULess(b.m_cursorCol, LineLen(b, b.m_cursorRow))
           THEN [b EXCEPT !.m_cursorCol = @ + 1]
           ELSE IF b.m_cursorRow < getLineCount(b) - 1
           THEN [b EXCEPT !.m_cursorRow = @ + 1, !.m_cursorCol = 0]
           ELSE b
      [] OTHER -> b

\* the switch of Buffer::moveCursor
moveInDirection(b, dir) ==
    CASE dir = "Up" ->
           IF b.m_cursorRow > 0 THEN [b EXCEPT !.m_cursorRow = @ - 1] ELSE b
      [] dir = "Down" ->
           IF b.m_cursorRow < getLineCount(b) - 1
           THEN [b EXCEPT !.m_cursorRow = @ + 1] ELSE b
      [] dir = "Left" ->
           IF b.m_cursorCol > 0 THEN [b EXCEPT !.m_cursorCol = @ - 1]
           ELSE IF b.m_cursorRow > 0
           THEN [b EXCEPT !.m_cursorRow = @ - 1,
                          !.m_cursorCol = LineLen(b, b.m_cursorRow - 1)]
           ELSE b
      [] dir = "Right" ->
           IF ULess(b.m_cursorCol, LineLen(b, b.m_cursorRow))
           THEN [b EXCEPT !.m_cursorCol = @ + 1]
           ELSE IF b.m_cursorRow < getLineCount(b) - 1
           THEN [b EXCEPT !.m_cursorRow = @ + 1, !.m_cursorCol = 0]
           ELSE b
      [] OTHER -> b

\* moveCursor starting or clearing the selection after the movement
moveCursorSelectsAfterMove(b, dir, selecting) ==
    LET oldRow == b.m_cursorRow
        oldCol == b.m_cursorCol
        b1 == fixCursor(moveInDirection(b, dir))
        b2 == IF selecting /\ ~hasSelection(b1) THEN selectStart(b1)
              ELSE IF ~selecting /\ hasSelection(b1) THEN unselect(b1)
              ELSE b1
    IN IF b2.m_cursorRow # oldRow \/ b2.m_cursorCol # oldCol
       THEN pushUndo(b2, MoveChange(oldRow, oldCol, b2.m_cursorRow, b2.m_cursorCol))
       ELSE b2

\* Buffer::moveCursor
moveCursor(b, dir, selecting) ==
    LET oldRow == b.m_cursorRow
        oldCol == b.m_cursorCol
        b1 == IF selecting /\ ~hasSelection(b) THEN selectStart(b)
              ELSE IF ~selecting /\ hasSelection(b) THEN unselect(b)
              ELSE b
        b2 == fixCursor(moveInDirection(b1, dir))
    IN IF b2.m_cursorRow # oldRow \/ b2.m_cursorCol # oldCol
       THEN pushUndo(b2, MoveChange(oldRow, oldCol, b2.m_cursorRow, b2.m_cursorCol))
       ELSE b2

----------------------------------------------------------------------------
(* Change::apply / Change::undo (Change.cpp) *)

InsertChangeApply(ch, b) ==
    insertTextInternal(setCursorPosition(b, ch.m_row, ch.m_col), ch.m_text)
\* InsertChange::undo deleting one unit too few
InsertChangeUndoOneShort(ch, b) ==
    setCursorPosition(deleteTextInternal(b, ch.m_row, ch.m_col, Len(ch.m_text) - 1),
                      ch.m_row, ch.m_col)
InsertChangeUndo(ch, b) ==
    setCursorPosition(deleteTextInternal(b, ch.m_row, ch.m_col, Len(ch.m_text)),
                      ch.m_row, ch.m_col)
DeleteChangeApply(ch, b) ==
    setCursorPosition(deleteTextInternal(b, ch.m_row, ch.m_col, Len(ch.m_deletedText)),
                      ch.m_row, ch.m_col)
\* DeleteChange::undo putting the cursor back at the start of the deletion
DeleteChangeUndoCursorAtStart(ch, b) ==
    fixCursor([insertTextInternal(setCursorPosition(b, ch.m_row, ch.m_col),
                                  ch.m_deletedText)
                  EXCEPT !.m_cursorRow = ch.m_row, !.m_cursorCol = ch.m_col])
DeleteChangeUndo(ch, b) ==
    insertTextInternal(setCursorPosition(b, ch.m_row, ch.m_col), ch.m_deletedText)
MoveChangeApply(ch, b) == setCursorPosition(b, ch.m_toRow, ch.m_toCol)
MoveChangeUndo(ch, b) == setCursorPosition(b, ch.m_fromRow, ch.m_fromCol)
SelectChangeApply(ch, b) == setSelectionStartInternal(b, ch.m_newSelectionStart)
SelectChangeUndo(ch, b) ==
    IF ch.m_oldSelectionStart # <<>>
    THEN setSelectionStartInternal(b, ch.m_oldSelectionStart)
    ELSE clearSelectionInternal(b)
UnselectChangeApply(ch, b) == clearSelectionInternal(b)
UnselectChangeUndo(ch, b) == setSelectionStartInternal(b, ch.m_oldSelectionStart)

\* virtual dispatch of Change::apply and Change::undo
ChangeApply(ch, b) ==
    CASE ch.kind = "Insert" -> InsertChangeApply(ch, b)
      [] ch.kind = "Delete" -> DeleteChangeApply(ch, b)
      [] ch.kind = "Move" -> MoveChangeApply(ch, b)
      [] ch.kind = "Select" -> SelectChangeApply(ch, b)
      [] ch.kind = "Unselect" -> UnselectChangeApply(ch, b)
ChangeUndo(ch, b) ==
    CASE ch.kind = "Insert" -> InsertChangeUndo(ch, b)
      [] ch.kind = "Delete" -> DeleteChangeUndo(ch, b)
      [] ch.kind = "Move" -> MoveChangeUndo(ch, b)
      [] ch.kind = "Select" -> SelectChangeUndo(ch, b)
      [] ch.kind = "Unselect" -> UnselectChangeUndo(ch, b)

\* undo deciding the edited flag from the stack as it is right after the pop,
\* before the change is undone
undoEditedFromPop(b) ==
    IF b.m_undoStack = <<>> THEN b
    ELSE LET changeToUndo == b.m_undoStack[Len(b.m_undoStack)]
             b1 == [b EXCEPT !.m_undoStack = SubSeq(@, 1, Len(@) - 1)]
             b2 == ChangeUndo(changeToUndo, b1)
             b3 == [b2 EXCEPT !.m_redoStack = Append(@, changeToUndo)]
         IN fixCursor([b3 EXCEPT !.m_isEdited = (b1.m_undoStack # <<>>)])

\* Buffer::undo
undo(b) ==
    IF b.m_undoStack = <<>> THEN b
    ELSE LET changeToUndo == b.m_undoStack[Len(b.m_undoStack)]
             b1 == [b EXCEPT !.m_undoStack = SubSeq(@, 1, Len(@) - 1)]
             b2 == ChangeUndo(changeToUndo, b1)
             b3 == [b2 EXCEPT !.m_redoStack = Append(@, changeToUndo)]
         IN fixCursor([b3 EXCEPT !.m_isEdited = (b3.m_undoStack # <<>>)])

\* redo marking the buffer edited before it looks at the redo stack
redoMarksEditedFirst(b) ==
    IF b.m_redoStack = <<>> THEN [b EXCEPT !.m_isEdited = TRUE]
    ELSE LET changeToRedo == b.m_redoStack[Len(b.m_redoStack)]
             b1 == [b EXCEPT !.m_redoStack = SubSeq(@, 1, Len(@) - 1)]
             b2 == ChangeApply(changeToRedo, b1)
             b3 == [b2 EXCEPT !.m_undoStack = Append(@, changeToRedo)]
         IN fixCursor([b3 EXCEPT !.m_isEdited = TRUE])

\* Buffer::redo
redo(b) ==
    IF b.m_redoStack = <<>> THEN b
    ELSE LET changeToRedo == b.m_redoStack[Len(b.m_redoStack)]
             b1 == [b EXCEPT !.m_redoStack = SubSeq(@, 1, Len(@) - 1)]
             b2 == ChangeApply(changeToRedo, b1)
             b3 == [b2 EXCEPT !.m_undoStack = Append(@, changeToRedo)]
         IN fixCursor([b3 EXCEPT !.m_isEdited = TRUE])

----------------------------------------------------------------------------
(* Buffer: saving.  What the file system does is the environment's choice:  *)
(* the ofstream opens and every write succeeds ("ok"), the ofstream does    *)
(* not open ("open_fails"), or it opens and a write fails after some prefix *)
(* of the text went out ("write_fails").                                    *)

IoOutcomes == {"ok", "open_fails", "write_fails"}

\* the for loop of Buffer::saveAs: every line, and a newline after every
\* line but the last
RECURSIVE writeLines(_)
writeLines(lines) ==
    IF lines = <<>> THEN <<>>
    ELSE IF Len(lines) = 1 THEN lines[1]
    ELSE lines[1] \o <<NL>> \o writeLines(Tail(lines))

\* saveAs that keeps the edited flag
saveAsKeepsEdited(b, path, io) ==
    IF io = "ok"
    THEN [buf |-> [b EXCEPT !.m_filePath = <<path>>], ret |-> TRUE]
    ELSE [buf |-> b, ret |-> FALSE]

\* Buffer::saveAs: the buffer after the call and the value returned
saveAs(b, path, io) ==
    IF io = "ok"
    THEN [buf |-> [b EXCEPT !.m_filePath = <<path>>, !.m_isEdited = FALSE], ret |-> TRUE]
    ELSE [buf |-> b, ret |-> FALSE]

\* save that writes to a default path when the buffer has none
saveInventsPath(b, io) ==
    IF b.m_filePath = <<>> THEN saveAs(b, "untitled", io)
    ELSE saveAs(b, b.m_filePath[1], io)

\* Buffer::save
save(b, io) ==
    IF b.m_filePath = <<>> THEN [buf |-> b, ret |-> FALSE]
    ELSE saveAs(b, b.m_filePath[1], io)

\* the file at the path written to, as a call of saveAs can leave it
FilesAfterSave(b, io) ==
    CASE io = "ok" -> { [readable |-> TRUE, bytes |-> writeLines(b.m_lines)] }
      [] io = "write_fails" ->
           { [readable |-> TRUE, bytes |-> SubSeq(writeLines(b.m_lines), 1, k)] :
               k \in 0 .. Len(writeLines(b.m_lines)) - 1 }
      [] OTHER -> { [readable |-> FALSE, bytes |-> <<>>] }

----------------------------------------------------------------------------
(* Buffer: construction *)

\* line.pop_back() when the line ends in '\r'
stripCR(line) ==
    IF line # <<>> /\ line[Len(line)] = CR THEN SubSeq(line, 1, Len(line) - 1) ELSE line

\* while (std::getline(file, line)) ... m_lines.push_back(line)
RECURSIVE readLines(_)
readLines(bytes) ==
    IF bytes = <<>> THEN <<>>
    ELSE LET p == find(bytes, NL, 0) IN
         IF p = npos THEN << stripCR(bytes) >>
         ELSE << stripCR(substr(bytes, 0, p)) >> \o readLines(substrFrom(bytes, p + 1))

\* the member initialisers of Buffer.hpp with a given line array and path
NewBuffer(path, lines) ==
    [m_filePath |-> path, m_lines |-> lines, m_cursorRow |-> 0, m_cursorCol |-> 0,
     m_selectionStart |-> <<>>, m_isEdited |-> FALSE,
     m_undoStack |-> <<>>, m_redoStack |-> <<>>]

\* the constructor without its guard against an empty line array
ensureOneLineNoGuard(lines) == lines

\* if (m_lines.empty()) m_lines.emplace_back("")
ensureOneLine(lines) == IF lines = <<>> THEN << <<>> >> ELSE lines

\* Buffer::Buffer()
BufferDefault == NewBuffer(<<>>, << <<>> >>)

\* Buffer::Buffer(const std::filesystem::path&); file.readable says whether
\* the ifstream opened, file.bytes is the file's content
BufferFromFile(path, file) ==
    IF file.readable
    THEN fixCursor(NewBuffer(<<path>>, ensureOneLine(readLines(file.bytes))))
    ELSE fixCursor(NewBuffer(<<>>, ensureOneLine(<<>>)))

----------------------------------------------------------------------------
(* The state machine: one action per public operation of Buffer *)

RECURSIVE SeqsUpTo(_, _)
SeqsUpTo(S, n) ==
    IF n = 0 THEN { <<>> }
    ELSE LET shorter == SeqsUpTo(S, n - 1)
         IN shorter \cup { Append(s, x) : s \in shorter, x \in S }

Files == { [readable |-> TRUE, bytes |-> bs] : bs \in SeqsUpTo(FileChars, MaxFileLen) }
         \cup { [readable |-> FALSE, bytes |-> <<>>] }

NoFile == [readable |-> FALSE, bytes |-> <<>>]

\* the record of a public call: which one, with which arguments
Op(name, text, row, col, dir, selecting) ==
    [op |-> name, text |-> text, row |-> row, col |-> col, dir |-> dir,
     selecting |-> selecting, file |-> NoFile, path |-> <<>>, io |-> "ok", ret |-> TRUE]

\* the record of a construction from a file
Construct(name, file) ==
    [op |-> name, text |-> <<>>, row |-> 0, col |-> 0, dir |-> "Nowhere",
     selecting |-> FALSE, file |-> file,
     path |-> (IF name = "Buffer(path)" THEN <<"f">> ELSE <<>>), io |-> "ok", ret |-> TRUE]

\* the record of a call of save or saveAs: the path written to (none when
\* save() found no path), what the file system did, the value returned and
\* the file as the call left it
Saved(name, path, io, ret, file) ==
    [op |-> name, text |-> <<>>, row |-> 0, col |-> 0, dir |-> "Nowhere",
     selecting |-> FALSE, file |-> file, path |-> path, io |-> io, ret |-> ret]

Init ==
    /\ \/ /\ buf = BufferDefault
          /\ last = Construct("Buffer()", NoFile)
       \/ \E file \in Files :
             /\ buf = BufferFromFile("f", file)
             /\ last = Construct("Buffer(path)", file)
    /\ pre = buf
    /\ origin = buf
    /\ fresh = TRUE
    /\ untouched = TRUE
    /\ clean = buf.m_lines
    /\ steps = 0
    /\ EnvIdle /\ EdIdle /\ ProbeIdle

\* the bookkeeping every action shares
Step(newBuf, opRecord) ==
    /\ steps < MaxOps
    /\ buf' = newBuf
    /\ pre' = buf
    /\ last' = opRecord
    /\ steps' = steps + 1
    /\ fresh' = (fresh /\ opRecord.op \notin {"undo", "redo"})
    /\ untouched' = (untouched /\ opRecord.op \in {"setCursorPosition", "moveCursor",
                                                   "selectStart", "unselect",
                                                   "undo", "redo"})
    /\ clean' = IF opRecord.op \in {"save", "saveAs"} /\ opRecord.ret
                THEN newBuf.m_lines ELSE clean
    /\ UNCHANGED origin
    /\ UNCHANGED <<envVars, edVars, probeVars>>

InsertChar ==
    \E c \in Chars :
        Step(insertChar(buf, c), Op("insertChar", <<c>>, 0, 0, "Nowhere", FALSE))

InsertNewline ==
    Step(insertNewline(buf), Op("insertNewline", <<NL>>, 0, 0, "Nowhere", FALSE))

InsertString ==
    \E t \in Texts :
        Step(insertString(buf, t), Op("insertString", t, 0, 0, "Nowhere", FALSE))

DeleteCharForward ==
    Step(deleteCharForward(buf), Op("deleteCharForward", <<>>, 0, 0, "Nowhere", FALSE))

DeleteCharBackward ==
    Step(deleteCharBackward(buf), Op("deleteCharBackward", <<>>, 0, 0, "Nowhere", FALSE))

DeleteSelection ==
    Step(deleteSelection(buf), Op("deleteSelection", <<>>, 0, 0, "Nowhere", FALSE))

SetCursorPosition ==
    \E row \in -1 .. MaxArg, col \in -1 .. MaxArg :
        Step(setCursorPosition(buf, row, col),
             Op("setCursorPosition", <<>>, row, col, "Nowhere", FALSE))

MoveCursor ==
    \E dir \in Directions, selecting \in BOOLEAN :
        Step(moveCursor(buf, dir, selecting),
             Op("moveCursor", <<>>, 0, 0, dir, selecting))

SelectStart ==
    Step(selectStart(buf), Op("selectStart", <<>>, 0, 0, "Nowhere", FALSE))

Unselect ==
    Step(unselect(buf), Op("unselect", <<>>, 0, 0, "Nowhere", FALSE))

Undo ==
    Step(undo(buf), Op("undo", <<>>, 0, 0, "Nowhere", FALSE))

Redo ==
    Step(redo(buf), Op("redo", <<>>, 0, 0, "Nowhere", FALSE))

SaveAs ==
    \E path \in SavePaths, io \in IoOutcomes :
        \E file \in FilesAfterSave(buf, io) :
            LET r == saveAs(buf, path, io)
            IN Step(r.buf, Saved("saveAs", <<path>>, io, r.ret, file))

Save ==
    \E io \in IoOutcomes :
        \E file \in (IF buf.m_filePath = <<>> THEN {NoFile} ELSE FilesAfterSave(buf, io)) :
            LET r == save(buf, io)
            IN Step(r.buf, Saved("save", buf.m_filePath, io, r.ret, file))

Next ==
    \/ InsertChar
    \/ InsertNewline
    \/ InsertString
    \/ DeleteCharForward
    \/ DeleteCharBackward
    \/ DeleteSelection
    \/ SetCursorPosition
    \/ MoveCursor
    \/ SelectStart
    \/ Unselect
    \/ Undo
    \/ Redo
    \/ SaveAs
    \/ Save

Spec == Init /\ [][Next]_vars

----------------------------------------------------------------------------
(* Environment (lang/Environment.cpp).  The Environment objects live in a   *)
(* heap, envs; a std::shared_ptr<Environment> is an index into it and       *)
(* nullptr is 0.  m_scope maps every name to its value or to absent.        *)

MaxEnvs == 3         \* Environment objects alive at once

Names == {"x", "y"}
\* a long long h * 2^32 + l, its low word l read as a signed 32-bit integer
LongExpr(h, l) == [type |-> "Int", value |-> l, high |-> h]
IntExpr(i) == LongExpr(0, i)
EnvValues == {IntExpr(1), IntExpr(2)}
nullptr == 0
absent == [type |-> "absent"]

\* m_scope.find(name) != m_scope.end()
binds(scope, name) == scope[name] # absent

\* Environment::Environment(std::shared_ptr<Environment> parent)
NewEnvironment(parent) == [m_scope |-> [n \in Names |-> absent], m_parent |-> parent]

\* Environment::define
define(heap, e, name, value) == [heap EXCEPT ![e].m_scope[name] = value]

\* assign that stops at the scope it is called on
assignInnermostOnly(heap, e, name, value) ==
    IF binds(heap[e].m_scope, name)
    THEN [heap |-> [heap EXCEPT ![e].m_scope[name] = value], ret |-> TRUE]
    ELSE [heap |-> heap, ret |-> FALSE]

\* Environment::assign: the heap after the call and the value returned
RECURSIVE assign(_, _, _, _)
assign(heap, e, name, value) ==
    IF binds(heap[e].m_scope, name)
    THEN [heap |-> [heap EXCEPT ![e].m_scope[name] = value], ret |-> TRUE]
    ELSE IF heap[e].m_parent # nullptr
    THEN assign(heap, heap[e].m_parent, name, value)
    ELSE [heap |-> heap, ret |-> FALSE]

\* Environment::lookup: <<>> (nullopt) or <<value>>
RECURSIVE lookup(_, _, _)
lookup(heap, e, name) ==
    IF binds(heap[e].m_scope, name) THEN << heap[e].m_scope[name] >>
    ELSE IF heap[e].m_parent # nullptr THEN lookup(heap, heap[e].m_parent, name)
    ELSE <<>>

\* the argument nodes handed to evalArg
SymbolExpr(n) == [type |-> "Symbol", name |-> n]
AssignExpr(n, valueExpr) == [type |-> "Assign", var |-> n, value |-> valueExpr]
LetExpr(n, valueExpr, bodyExpr) ==
    [type |-> "Let", var |-> n, value |-> valueExpr, body |-> bodyExpr]

ArgExprs ==
    { SymbolExpr(n) : n \in Names }
      \cup { AssignExpr(n, IntExpr(2)) : n \in Names }
      \cup { LetExpr(n, IntExpr(2), SymbolExpr(m)) : n, m \in Names }

\* Interpreter::evaluate of a node in Environment env: the heap after the
\* evaluation, whether it ended without a runtime failure, and the value.
\* A literal is its own value; a symbol is looked up and fails when unbound;
\* Assign evaluates its value and assigns, failing when no scope binds the
\* name; Let evaluates its value, binds the name in a new child scope,
\* evaluates its body there and discards that scope.
RECURSIVE evaluate(_, _, _)
evaluate(heap, env, expr) ==
    CASE expr.type = "Symbol" ->
           LET found == lookup(heap, env, expr.name)
           IN IF found = <<>> THEN [heap |-> heap, ok |-> FALSE, value |-> absent]
              ELSE [heap |-> heap, ok |-> TRUE, value |-> found[1]]
      [] expr.type = "Assign" ->
           LET v == evaluate(heap, env, expr.value)
           IN IF ~v.ok THEN v
              ELSE LET a == assign(v.heap, env, expr.var, v.value)
                   IN [heap |-> a.heap, ok |-> a.ret, value |-> v.value]
      [] expr.type = "Let" ->
           LET v == evaluate(heap, env, expr.value)
           IN IF ~v.ok THEN v
              ELSE LET child == Len(v.heap) + 1
                       h1 == Append(v.heap, NewEnvironment(env))
                       h2 == define(h1, child, expr.var, v.value)
                       b == evaluate(h2, child, expr.body)
                   IN [b EXCEPT !.heap = SubSeq(@, 1, Len(v.heap))]
      [] OTHER -> [heap |-> heap, ok |-> TRUE, value |-> expr]

\* evalArg: Interpreter interpreter(std::make_shared<Environment>(env));
\* return interpreter.evaluate(arg).  make_shared<Environment>(env) with an
\* Environment& constructs a copy of env: the same bindings, the same parent.
\* The copy is released when evalArg returns.
evalArg(heap, env, arg) ==
    LET copy == Len(heap) + 1
        r == evaluate(Append(heap, heap[env]), copy, arg)
    IN [r EXCEPT !.heap = SubSeq(@, 1, Len(heap))]

\* the record of a call on Environment e
EnvOp(name, e, n, value, ret, result) ==
    [op |-> name, env |-> e, name |-> n, value |-> value, ret |-> ret, result |-> result]

\* no Buffer is being edited (the specification of the Environment alone)
BufIdle ==
    /\ buf = BufferDefault
    /\ pre = BufferDefault
    /\ last = Construct("Buffer()", NoFile)
    /\ origin = BufferDefault
    /\ fresh = TRUE
    /\ untouched = TRUE
    /\ clean = BufferDefault.m_lines
    /\ steps = 0

\* the root Environment the Editor constructs
EnvInit ==
    /\ envs = << NewEnvironment(nullptr) >>
    /\ envPre = envs
    /\ envLast = EnvOp("Environment", 1, "x", absent, TRUE, <<>>)
    /\ BufIdle /\ EdIdle /\ ProbeIdle

\* the bookkeeping every Environment action shares
EnvStep(newEnvs, opRecord) ==
    /\ envs' = newEnvs
    /\ envPre' = envs
    /\ envLast' = opRecord
    /\ UNCHANGED <<bufVars, edVars, probeVars>>

EnvNew ==
    /\ Len(envs) < MaxEnvs
    /\ \E parent \in 1 .. Len(envs) :
          EnvStep(Append(envs, NewEnvironment(parent)),
                  EnvOp("Environment", Len(envs) + 1, "x", absent, TRUE, <<>>))

EnvDefine ==
    \E e \in 1 .. Len(envs), n \in Names, v \in EnvValues :
        EnvStep(define(envs, e, n, v), EnvOp("define", e, n, v, TRUE, <<>>))

EnvAssign ==
    \E e \in 1 .. Len(envs), n \in Names, v \in EnvValues :
        LET r == assign(envs, e, n, v)
        IN EnvStep(r.heap, EnvOp("assign", e, n, v, r.ret, <<>>))

EnvLookup ==
    \E e \in 1 .. Len(envs), n \in Names :
        EnvStep(envs, EnvOp("lookup", e, n, absent, TRUE, lookup(envs, e, n)))

EnvEvalArg ==
    \E e \in 1 .. Len(envs), arg \in ArgExprs :
        LET r == evalArg(envs, e, arg)
        IN EnvStep(r.heap, EnvOp("evalArg", e, "x", arg, r.ok, << r.value >>))

EnvNext ==
    \/ EnvNew
    \/ EnvDefine
    \/ EnvAssign
    \/ EnvLookup
    \/ EnvEvalArg

EnvSpec == EnvInit /\ [][EnvNext]_vars

----------------------------------------------------------------------------
(* Properties *)

CursorIs(b, row, col) == b.m_cursorRow = row /\ b.m_cursorCol = col
SameCursor(b1, b2) == b1.m_cursorRow = b2.m_cursorRow /\ b1.m_cursorCol = b2.m_cursorCol

\* C1: after construction and after every public operation the cursor is
\* inside the buffer: 0 <= row < line count and 0 <= col <= length of
\* lines[row].
C1_CursorInBounds ==
    /\ 0 <= buf.m_cursorRow
    /\ buf.m_cursorRow < Len(buf.m_lines)
    /\ 0 <= buf.m_cursorCol
    /\ buf.m_cursorCol <= Len(buf.m_lines[buf.m_cursorRow + 1])

\* C1 witness: setCursorPosition was called with a negative row and a column
\* beyond the end of the line, and the cursor was clamped to the end of row 0.
C1_Witness ==
    /\ last.op = "setCursorPosition"
    /\ last.row < 0
    /\ last.col > Len(buf.m_lines[1])
    /\ CursorIs(buf, 0, Len(buf.m_lines[1]))
    /\ ~SameCursor(buf, pre)

\* C2: the line array is never empty, after any construction and after any
\* sequence of public operations.
C2_LinesNeverEmpty == Len(buf.m_lines) >= 1

\* C2 witness: a deleteSelection removed the whole content of a buffer of
\* several lines, and one empty line is left.
C2_Witness ==
    /\ last.op = "deleteSelection"
    /\ Len(pre.m_lines) > 1
    /\ buf.m_lines = << <<>> >>

\* C2 witness (construction): the buffer was constructed from an empty file
\* or from a file that could not be opened.
C2_WitnessConstructed ==
    /\ last.op = "Buffer(path)"
    /\ last.file.bytes = <<>>
    /\ buf.m_lines = << <<>> >>

Cursor(b) == <<b.m_cursorRow, b.m_cursorCol>>

\* a selection is active and its anchor is not the cursor position
NonEmptySelection(b) == hasSelection(b) /\ b.m_selectionStart # Cursor(b)

\* nothing is selected, or the selected text is empty
NoSelectedText(b) == getSelectedText(b) \in { <<>>, << <<>> >> }

\* the position just after a text placed at (row, col)
RECURSIVE TextEnd(_, _, _)
TextEnd(row, col, text) ==
    IF text = <<>> THEN <<row, col>>
    ELSE IF Head(text) = NL THEN TextEnd(row + 1, 0, Tail(text))
    ELSE TextEnd(row, col + 1, Tail(text))

AtBufferEnd(b) ==
    b.m_cursorRow = Len(b.m_lines) - 1 /\ b.m_cursorCol = LineLen(b, b.m_cursorRow)

\* n consecutive calls of undo()
RECURSIVE undoTimes(_, _)
undoTimes(b, n) == IF n = 0 THEN b ELSE undoTimes(undo(b), n - 1)

\* C3 as stated: from any buffer state, insertString(s) followed by one
\* undo() restores the line array and the cursor position that held before
\* insertString(s).
C3_Original ==
    last.op = "insertString" =>
        LET u == undo(buf) IN u.m_lines = pre.m_lines /\ SameCursor(u, pre)

\* C3 amended: from any buffer state in which no non-empty text is selected,
\* insertString(s) with a non-empty s followed by one undo() restores the
\* line array and the cursor position that held before insertString(s).
C3_InsertStringUndo ==
    (last.op = "insertString" /\ last.text # <<>> /\ NoSelectedText(pre)) =>
        LET u == undo(buf) IN u.m_lines = pre.m_lines /\ SameCursor(u, pre)

\* C3 witness: a text with an embedded newline was inserted into a buffer
\* that has content and no selection, away from (0,0); the line array changed
\* and one undo() brings it back.
C3_Witness ==
    /\ last.op = "insertString"
    /\ find(last.text, NL, 0) # npos
    /\ Len(last.text) > 1
    /\ ~hasSelection(pre)
    /\ Cursor(pre) # <<0, 0>>
    /\ Len(buf.m_lines) > Len(pre.m_lines)
    /\ undo(buf).m_lines = pre.m_lines

C5_DeleteCharBackwardUndo ==
    (last.op = "deleteCharBackward" /\ ~hasSelection(pre) /\ Cursor(pre) # <<0, 0>>) =>
        LET u == undo(buf) IN u.m_lines = pre.m_lines /\ SameCursor(u, pre)

\* C6 as stated: with no selection and the cursor not at the end of the last
\* line, deleteCharForward() followed by one undo() restores the line array
\* and the cursor position that held before the deletion.
C6_Original ==
    (last.op = "deleteCharForward" /\ ~hasSelection(pre) /\ ~AtBufferEnd(pre)) =>
        LET u == undo(buf) IN u.m_lines = pre.m_lines /\ SameCursor(u, pre)

\* C6 amended: with no selection and the cursor not at the end of the last
\* line, deleteCharForward() followed by one undo() restores the line array
\* and leaves the cursor just after the re-inserted unit: one column to the
\* right of where it was, or at column 0 of the next row when the unit is a
\* line break.
C6_DeleteCharForwardUndo ==
    (last.op = "deleteCharForward" /\ ~hasSelection(pre) /\ ~AtBufferEnd(pre)) =>
        LET u == undo(buf)
        IN /\ u.m_lines = pre.m_lines
           /\ Cursor(u) = IF pre.m_cursorCol < LineLen(pre, pre.m_cursorRow)
                          THEN <<pre.m_cursorRow, pre.m_cursorCol + 1>>
                          ELSE <<pre.m_cursorRow + 1, 0>>

\* C6 witness: deleteCharForward() at the end of a line that is not the last
\* joined two lines, and the undo() splits them again.
C6_Witness ==
    /\ last.op = "deleteCharForward"
    /\ ~hasSelection(pre)
    /\ pre.m_cursorCol = LineLen(pre, pre.m_cursorRow)
    /\ pre.m_cursorCol > 0
    /\ Len(buf.m_lines) = Len(pre.m_lines) - 1
    /\ undo(buf).m_lines = pre.m_lines
    /\ Cursor(undo(buf)) = <<pre.m_cursorRow + 1, 0>>

\* C7 (its first conjunct): starting from a constructed buffer, whose undo
\* stack is empty, after any sequence of public editing, cursor and selection
\* operations that leaves m records on the undo stack, m consecutive undo()
\* calls leave the line array equal to that of the constructed buffer.  The
\* claim asks the same of the cursor and of the selection anchor.
C7_UndoAllRestoresLines ==
    fresh => undoTimes(buf, Len(buf.m_undoStack)).m_lines = origin.m_lines

\* C8 as stated: from every reachable state with a non-empty undo stack,
\* undo() followed by redo() restores the line array and the cursor position
\* that held before the undo().
C8_UndoRedo ==
    (last.op = "undo" /\ pre.m_undoStack # <<>>) =>
        LET r == redo(buf) IN r.m_lines = pre.m_lines /\ SameCursor(r, pre)

\* C9 as stated: undo() on a non-empty undo stack moves exactly its top
\* record to the top of the redo stack and changes neither stack otherwise;
\* redo() on a non-empty redo stack does the mirror-image transfer.
C9_StackTransfer ==
    /\ (last.op = "undo" /\ pre.m_undoStack # <<>>) =>
          /\ buf.m_undoStack = SubSeq(pre.m_undoStack, 1, Len(pre.m_undoStack) - 1)
          /\ buf.m_redoStack =
                Append(pre.m_redoStack, pre.m_undoStack[Len(pre.m_undoStack)])
    /\ (last.op = "redo" /\ pre.m_redoStack # <<>>) =>
          /\ buf.m_redoStack = SubSeq(pre.m_redoStack, 1, Len(pre.m_redoStack) - 1)
          /\ buf.m_undoStack =
                Append(pre.m_undoStack, pre.m_redoStack[Len(pre.m_redoStack)])

\* C10: every public operation other than undo()/redo() that pushes a record
\* onto the undo stack leaves the redo stack empty, so that a redo() issued
\* right after it changes nothing.
C10_PushClearsRedo ==
    (last.op \notin {"undo", "redo"} /\ buf.m_undoStack # pre.m_undoStack) =>
        /\ buf.m_redoStack = <<>>
        /\ redo(buf) = buf

\* C10 witness: an operation other than undo()/redo() pushed a record while
\* the redo stack held a record, and the redo stack is empty afterwards.
C10_Witness ==
    /\ last.op \notin {"undo", "redo", "Buffer()", "Buffer(path)"}
    /\ pre.m_redoStack # <<>>
    /\ Len(buf.m_undoStack) > Len(pre.m_undoStack)
    /\ buf.m_redoStack = <<>>

\* C11: undo() on an empty undo stack and redo() on an empty redo stack
\* change nothing: lines, cursor, selection anchor, edited flag, file path and
\* both stacks are what they were.
C11_EmptyStackNoOp ==
    /\ (last.op = "undo" /\ pre.m_undoStack = <<>>) => buf = pre
    /\ (last.op = "redo" /\ pre.m_redoStack = <<>>) => buf = pre

\* C11 witness: redo() was called with an empty redo stack on a buffer that
\* is not edited and holds a selection and a record on its undo stack, and
\* the buffer is what it was.
C11_Witness ==
    /\ last.op = "redo"
    /\ pre.m_redoStack = <<>>
    /\ pre.m_undoStack # <<>>
    /\ hasSelection(pre)
    /\ ~pre.m_isEdited
    /\ buf = pre

\* C11 witness (undo): undo() was called with an empty undo stack while the
\* redo stack held a record, and the buffer is what it was.
C11_WitnessUndo ==
    /\ last.op = "undo"
    /\ pre.m_undoStack = <<>>
    /\ pre.m_redoStack # <<>>
    /\ buf = pre

\* C12: right after an undo() that popped a record, isEdited() is false if
\* and only if the undo stack is empty; right after a redo() that re-applied
\* a record, isEdited() is true.
C12_EditedAfterUndoRedo ==
    /\ (last.op = "undo" /\ pre.m_undoStack # <<>>) =>
          (buf.m_isEdited = FALSE <=> buf.m_undoStack = <<>>)
    /\ (last.op = "redo" /\ pre.m_redoStack # <<>>) => buf.m_isEdited

\* C12 witness: an undo() popped the only record of an edited buffer and
\* undoing it recorded a cursor move, so the undo stack is not empty and the
\* buffer is still edited.
C12_Witness ==
    /\ last.op = "undo"
    /\ Len(pre.m_undoStack) = 1
    /\ pre.m_isEdited
    /\ buf.m_undoStack # <<>>
    /\ buf.m_isEdited

\* C12 witness (clean): an undo() popped the only record of an edited buffer
\* and left the undo stack empty and the buffer not edited.
C12_WitnessClean ==
    /\ last.op = "undo"
    /\ Len(pre.m_undoStack) = 1
    /\ pre.m_isEdited
    /\ buf.m_undoStack = <<>>
    /\ ~buf.m_isEdited

CursorOnlyOps == {"setCursorPosition", "moveCursor", "selectStart", "unselect"}

InsertOps == {"insertChar", "insertNewline", "insertString"}

ContentOps == InsertOps \cup {"deleteCharForward", "deleteCharBackward", "deleteSelection"}

\* the buffer an insert operation inserts into: the one it was called on, or
\* that one after its selection was deleted
BeforeInsert(b) == IF hasSelection(b) THEN deleteSelection(b) ELSE b

\* C13 as stated: setCursorPosition, moveCursor, selectStart and unselect
\* leave the edited flag and the line array unchanged; an insert or delete
\* operation that changed the text leaves the buffer edited and its inverse
\* record on top of the undo stack: an Insert record for an insertion, a
\* Delete record for a deletion, whose undo gives back the line array the
\* insertion or deletion started from.
C13_EditedAndRecorded ==
    /\ last.op \in CursorOnlyOps =>
          buf.m_isEdited = pre.m_isEdited /\ buf.m_lines = pre.m_lines
    /\ (last.op \in ContentOps /\ buf.m_lines # pre.m_lines) =>
          /\ buf.m_isEdited
          /\ Len(buf.m_undoStack) > Len(pre.m_undoStack)
          /\ buf.m_undoStack[Len(buf.m_undoStack)].kind =
                (IF last.op \in InsertOps THEN "Insert" ELSE "Delete")
          /\ undo(buf).m_lines =
                (IF last.op \in InsertOps THEN BeforeInsert(pre).m_lines
                 ELSE pre.m_lines)

\* the document as one text: the lines joined by newlines
RECURSIVE Flatten(_)
Flatten(lines) ==
    IF Len(lines) = 1 THEN lines[1]
    ELSE lines[1] \o <<NL>> \o Flatten(Tail(lines))

\* the number of characters of the document before position (row, col)
RECURSIVE Offset(_, _, _)
Offset(lines, row, col) ==
    IF row = 0 THEN col
    ELSE Len(lines[1]) + 1 + Offset(Tail(lines), row - 1, col)

ValidPos(b, pos) ==
    /\ pos[1] \in 0..(Len(b.m_lines) - 1)
    /\ pos[2] \in 0..LineLen(b, pos[1])

PosBefore(p, q) == p[1] < q[1] \/ (p[1] = q[1] /\ p[2] < q[2])

SelStart(b) ==
    IF PosBefore(b.m_selectionStart, Cursor(b)) THEN b.m_selectionStart ELSE Cursor(b)

SelEnd(b) ==
    IF PosBefore(b.m_selectionStart, Cursor(b)) THEN Cursor(b) ELSE b.m_selectionStart

\* the characters of the document between two positions
TextBetween(lines, s, e) ==
    SubSeq(Flatten(lines), Offset(lines, s[1], s[2]) + 1, Offset(lines, e[1], e[2]))

\* C14 as stated: whenever a selection is active, getSelectedText() is the
\* text of the document between the earlier and the later of anchor and
\* cursor, one newline for every line boundary in between, also when the
\* later one is at column 0; it is the empty text when anchor and cursor
\* coincide.
C14_SelectedText ==
    (hasSelection(buf) /\ ValidPos(buf, buf.m_selectionStart)) =>
        getSelectedText(buf) = << TextBetween(buf.m_lines, SelStart(buf), SelEnd(buf)) >>

\* the document with the text between two positions taken out
TextWithout(lines, s, e) ==
    LET flat == Flatten(lines)
    IN SubSeq(flat, 1, Offset(lines, s[1], s[2]))
         \o SubSeq(flat, Offset(lines, e[1], e[2]) + 1, Len(flat))

\* C15 as stated: deleteSelection() with a selection whose anchor is not the
\* cursor leaves the text before the normalized start followed by the text
\* after the normalized end, also when the end is at column 0; the selection
\* is cleared and the cursor is at the normalized start.
C15_DeleteSelectionSpan ==
    (last.op = "deleteSelection" /\ NonEmptySelection(pre)
       /\ ValidPos(pre, pre.m_selectionStart)) =>
        /\ Flatten(buf.m_lines) = TextWithout(pre.m_lines, SelStart(pre), SelEnd(pre))
        /\ ~hasSelection(buf)
        /\ Cursor(buf) = SelStart(pre)

\* C16 as stated: deleteSelection() with a selection whose anchor is not the
\* cursor makes the undo stack grow by exactly one record, a Delete at the
\* normalized start that holds the text between start and end, newlines
\* included.
C16_OneDeleteRecord ==
    (last.op = "deleteSelection" /\ NonEmptySelection(pre)
       /\ ValidPos(pre, pre.m_selectionStart)) =>
        buf.m_undoStack =
            Append(pre.m_undoStack,
                   DeleteChange(SelStart(pre)[1], SelStart(pre)[2],
                                TextBetween(pre.m_lines, SelStart(pre), SelEnd(pre))))

InsertedSomething == last.op \in InsertOps /\ (last.op = "insertString" => last.text # <<>>)

\* C17 as stated: insertChar, insertNewline or a non-empty insertString
\* called with a selection whose anchor is not the cursor adds exactly two
\* records to the undo stack; one undo() then gives the line array with the
\* selection deleted and nothing inserted, and a second undo() gives the line
\* array that held before the call.
C17_ReplaceSelectionTwoSteps ==
    (InsertedSomething /\ NonEmptySelection(pre) /\ ValidPos(pre, pre.m_selectionStart)) =>
        /\ Len(buf.m_undoStack) = Len(pre.m_undoStack) + 2
        /\ undo(buf).m_lines = deleteSelection(pre).m_lines
        /\ undo(undo(buf)).m_lines = pre.m_lines

\* the document with a text put in at a position
TextWith(lines, pos, text) ==
    LET flat == Flatten(lines)
        at == Offset(lines, pos[1], pos[2])
    IN SubSeq(flat, 1, at) \o text \o SubSeq(flat, at + 1, Len(flat))

\* the buffer of the example of C18: lines ["ab","cd"], cursor (0,2)
C18_ExampleBuffer ==
    [NewBuffer(<<>>, << <<"a", "b">>, <<"c", "d">> >>) EXCEPT !.m_cursorCol = 2]

\* C18: with no selection, insertChar(c), insertNewline() and a non-empty
\* insertString(t) at cursor (r,c) leave the document with the text put in
\* at (r,c), every newline of it a line boundary, and nothing else changed;
\* the cursor is just after the inserted text, and the undo stack has gained
\* exactly one record, Insert at (r,c) holding the whole text.
\* insertString("") changes nothing and pushes nothing. On lines ["ab","cd"]
\* with the cursor at (0,2), insertNewline() gives ["ab","","cd"] and cursor
\* (1,0).
C18_InsertNoSelection ==
    /\ (last.op \in InsertOps /\ ~hasSelection(pre)) =>
          IF last.text = <<>> THEN buf = pre
          ELSE /\ Flatten(buf.m_lines) = TextWith(pre.m_lines, Cursor(pre), last.text)
               /\ Len(buf.m_lines) = Len(pre.m_lines) + Cardinality({i \in DOMAIN last.text : last.text[i] = NL})
               /\ Cursor(buf) = TextEnd(pre.m_cursorRow, pre.m_cursorCol, last.text)
               /\ buf.m_undoStack =
                     Append(pre.m_undoStack,
                            InsertChange(pre.m_cursorRow, pre.m_cursorCol, last.text))
               /\ ~hasSelection(buf)
    /\ (last.op = "insertString" /\ last.text = <<>>) => buf = pre
    /\ LET after == insertNewline(C18_ExampleBuffer)
       IN /\ after.m_lines = << <<"a", "b">>, <<>>, <<"c", "d">> >>
          /\ Cursor(after) = <<1, 0>>

\* C18 witness: a text with an embedded newline was inserted in the middle
\* of a line of a buffer with two lines and no selection; the line was split
\* and the undo stack gained one record.
C18_Witness ==
    /\ last.op = "insertString"
    /\ NL \in { last.text[i] : i \in DOMAIN last.text }
    /\ ~hasSelection(pre)
    /\ Len(pre.m_lines) = 2
    /\ pre.m_cursorCol > 0
    /\ pre.m_cursorCol < LineLen(pre, pre.m_cursorRow)
    /\ Len(buf.m_lines) = 3
    /\ Len(buf.m_undoStack) = Len(pre.m_undoStack) + 1

\* C18 witness (newline): insertNewline() at the end of the first of two
\* non-empty lines put an empty line between them and the cursor on it.
C18_WitnessNewline ==
    /\ last.op = "insertNewline"
    /\ ~hasSelection(pre)
    /\ Len(pre.m_lines) = 2 /\ pre.m_lines[1] # <<>> /\ pre.m_lines[2] # <<>>
    /\ Cursor(pre) = <<0, Len(pre.m_lines[1])>>
    /\ buf.m_lines = <<pre.m_lines[1], <<>>, pre.m_lines[2]>>
    /\ Cursor(buf) = <<1, 0>>

\* C18 witness (empty): insertString("") was called on an edited buffer and
\* left it as it was.
C18_WitnessEmpty ==
    /\ last.op = "insertString"
    /\ last.text = <<>>
    /\ pre.m_isEdited
    /\ buf = pre

\* C19: unselect() called with a selection active clears it and adds exactly
\* one record, and a second unselect() then changes nothing; selectStart()
\* called with no selection sets the anchor to the cursor and adds exactly
\* one record, and a second selectStart() then changes nothing, so the first
\* anchor is kept; either call made when the buffer is already in its target
\* state leaves the buffer and both stacks as they were.
C19_SelectIdempotent ==
    /\ last.op = "unselect" =>
          IF hasSelection(pre)
          THEN /\ ~hasSelection(buf)
               /\ Len(buf.m_undoStack) = Len(pre.m_undoStack) + 1
               /\ unselect(buf) = buf
          ELSE buf = pre
    /\ last.op = "selectStart" =>
          IF ~hasSelection(pre)
          THEN /\ buf.m_selectionStart = Cursor(pre)
               /\ Len(buf.m_undoStack) = Len(pre.m_undoStack) + 1
               /\ selectStart(buf) = buf
          ELSE buf = pre

\* C19 witness: selectStart() was called while a selection with another
\* anchor than the cursor was active, and
\* the buffer is what it was.
C19_Witness ==
    /\ last.op = "selectStart"
    /\ NonEmptySelection(pre)
    /\ buf = pre
    /\ buf.m_selectionStart # Cursor(buf)

\* C19 witness (unselect): unselect() was called twice in a row, the first
\* call with a selection active; the second call left the buffer as it was.
C19_WitnessUnselect ==
    /\ last.op = "unselect"
    /\ ~hasSelection(pre)
    /\ pre.m_undoStack # <<>>
    /\ pre.m_undoStack[Len(pre.m_undoStack)].kind = "Unselect"
    /\ buf = pre

Clamp(x, lo, hi) == IF x < lo THEN lo ELSE IF x > hi THEN hi ELSE x

\* C20: setCursorPosition(row, col), for any integers, leaves the cursor at
\* the row clamped to [0, lineCount-1] and the column clamped to [0, length
\* of that row]; the undo stack gains one Move record, from the old to the
\* new position, when the new position differs from the old one, and is
\* unchanged otherwise. Lines, selection anchor and edited flag are unchanged.
C20_SetCursorPosition ==
    last.op = "setCursorPosition" =>
        LET r == Clamp(last.row, 0, Len(pre.m_lines) - 1)
            c == Clamp(last.col, 0, Len(pre.m_lines[r + 1]))
        IN /\ Cursor(buf) = <<r, c>>
           /\ buf.m_undoStack =
                 (IF <<r, c>> # Cursor(pre)
                  THEN Append(pre.m_undoStack,
                              MoveChange(pre.m_cursorRow, pre.m_cursorCol, r, c))
                  ELSE pre.m_undoStack)
           /\ buf.m_lines = pre.m_lines
           /\ buf.m_selectionStart = pre.m_selectionStart
           /\ buf.m_isEdited = pre.m_isEdited

\* C20 witness: setCursorPosition was called with a row beyond the last line
\* and a negative column while the cursor was already at column 0 of the last
\* line of a buffer with several lines; the cursor stayed and no record was
\* pushed.
C20_Witness ==
    /\ last.op = "setCursorPosition"
    /\ last.row > Len(pre.m_lines) - 1
    /\ last.col < 0
    /\ Len(pre.m_lines) > 1
    /\ Cursor(pre) = <<Len(pre.m_lines) - 1, 0>>
    /\ buf.m_undoStack = pre.m_undoStack
    /\ pre.m_undoStack # <<>>

\* C20 witness (moved): setCursorPosition was called with a row beyond the
\* last line and a column beyond the end of that line; the cursor went to
\* the end of the last line and one Move record was pushed.
C20_WitnessMoved ==
    /\ last.op = "setCursorPosition"
    /\ last.row > Len(pre.m_lines) - 1
    /\ last.col > Len(pre.m_lines[Len(pre.m_lines)])
    /\ Len(pre.m_lines) > 1
    /\ Cursor(buf) = <<Len(pre.m_lines) - 1, Len(pre.m_lines[Len(pre.m_lines)])>>
    /\ Cursor(buf) # Cursor(pre)
    /\ Len(buf.m_undoStack) = Len(pre.m_undoStack) + 1

\* the records an operation added to the undo stack
Added(before, after) ==
    SubSeq(after.m_undoStack, Len(before.m_undoStack) + 1, Len(after.m_undoStack))

\* where moveCursor is to leave a cursor that is at (r, c)
MoveTarget(lines, r, c, dir) ==
    LET len(row) == Len(lines[row + 1])
        lastRow == Len(lines) - 1
    IN CASE dir = "Left" ->
              IF c > 0 THEN <<r, c - 1>>
              ELSE IF r > 0 THEN <<r - 1, len(r - 1)>> ELSE <<r, c>>
         [] dir = "Right" ->
              IF c < len(r) THEN <<r, c + 1>>
              ELSE IF r < lastRow THEN <<r + 1, 0>> ELSE <<r, c>>
         [] dir = "Up" ->
              IF r > 0 THEN <<r - 1, Clamp(c, 0, len(r - 1))>> ELSE <<r, c>>
         [] dir = "Down" ->
              IF r < lastRow THEN <<r + 1, Clamp(c, 0, len(r + 1))>> ELSE <<r, c>>
         [] OTHER -> <<r, c>>

\* C21: moveCursor leaves the cursor one step in the given direction: Left
\* at column 0 of a row r > 0 goes to the end of row r-1, Right at the end of
\* a row that is not the last goes to column 0 of the next row, Up and Down
\* go one row keeping the column clamped to the length of the target line;
\* Left at (0,0), Right at the end of the last line, Up on row 0, Down on the
\* last row and Nowhere leave the cursor where it was. The records the call
\* adds to the undo stack hold one Move record, from the old to the new
\* position, when the position changed, and no Move record otherwise; the
\* line array is unchanged.
C21_MoveCursor ==
    last.op = "moveCursor" =>
        LET target == MoveTarget(pre.m_lines, pre.m_cursorRow, pre.m_cursorCol, last.dir)
            added == Added(pre, buf)
            moves == SelectSeq(added, LAMBDA ch : ch.kind = "Move")
        IN /\ Cursor(buf) = target
           /\ moves = (IF target # Cursor(pre)
                       THEN << MoveChange(pre.m_cursorRow, pre.m_cursorCol,
                                          target[1], target[2]) >>
                       ELSE <<>>)
           /\ Len(buf.m_undoStack) >= Len(pre.m_undoStack)
           /\ buf.m_lines = pre.m_lines

\* C21 witness: Left at column 0 of a row below a non-empty line took the
\* cursor to the end of the line above and pushed a Move record.
C21_Witness ==
    /\ last.op = "moveCursor"
    /\ last.dir = "Left"
    /\ pre.m_cursorCol = 0
    /\ pre.m_cursorRow > 0
    /\ LineLen(pre, pre.m_cursorRow - 1) > 0
    /\ Cursor(buf) = <<pre.m_cursorRow - 1, LineLen(pre, pre.m_cursorRow - 1)>>
    /\ buf.m_undoStack[Len(buf.m_undoStack)].kind = "Move"

\* C21 witness (clamped): Down from a column beyond the length of the next
\* line took the cursor to the end of the next line.
C21_WitnessClamped ==
    /\ last.op = "moveCursor"
    /\ last.dir = "Down"
    /\ pre.m_cursorRow < Len(pre.m_lines) - 1
    /\ pre.m_cursorCol > LineLen(pre, pre.m_cursorRow + 1)
    /\ Cursor(buf) = <<pre.m_cursorRow + 1, LineLen(pre, pre.m_cursorRow + 1)>>

\* C21 witness (stay): Right at the end of the last line of a buffer with
\* content left the cursor and the undo stack as they were.
C21_WitnessStay ==
    /\ last.op = "moveCursor"
    /\ last.dir = "Right"
    /\ ~last.selecting
    /\ ~hasSelection(pre)
    /\ AtBufferEnd(pre)
    /\ Cursor(pre) # <<0, 0>>
    /\ buf = pre

\* C22: after moveCursor(d, selecting=true) a selection is active; its anchor
\* is the cursor position before the call when no selection was active then,
\* and the anchor it had before the call otherwise. After
\* moveCursor(d, selecting=false) no selection is active. This holds for
\* every direction, Nowhere included, whether or not the position changed.
C22_SelectionAfterMove ==
    last.op = "moveCursor" =>
        IF last.selecting
        THEN /\ hasSelection(buf)
             /\ buf.m_selectionStart =
                   (IF hasSelection(pre) THEN pre.m_selectionStart ELSE Cursor(pre))
        ELSE ~hasSelection(buf)

\* C22 witness: moveCursor with selecting=true moved the cursor of a buffer
\* without a selection; the anchor is where the cursor was, not where it is.
C22_Witness ==
    /\ last.op = "moveCursor"
    /\ last.selecting
    /\ ~hasSelection(pre)
    /\ Cursor(buf) # Cursor(pre)
    /\ buf.m_selectionStart = Cursor(pre)

\* C22 witness (Nowhere): moveCursor(Nowhere, selecting=false) on a buffer
\* with a selection left the cursor where it was and cleared the selection.
C22_WitnessNowhere ==
    /\ last.op = "moveCursor"
    /\ last.dir = "Nowhere"
    /\ ~last.selecting
    /\ NonEmptySelection(pre)
    /\ SameCursor(buf, pre)
    /\ ~hasSelection(buf)

\* C22 witness (kept): moveCursor with selecting=true on a buffer with a
\* selection moved the cursor and kept the anchor.
C22_WitnessKept ==
    /\ last.op = "moveCursor"
    /\ last.selecting
    /\ hasSelection(pre)
    /\ Cursor(buf) # Cursor(pre)
    /\ buf.m_selectionStart = pre.m_selectionStart

\* the document with the one character (or line boundary) at offset k taken out
TextWithoutAt(lines, k) ==
    LET flat == Flatten(lines)
    IN SubSeq(flat, 1, k) \o SubSeq(flat, k + 2, Len(flat))

\* C23: with no selection, deleteCharBackward() at (0,0) and
\* deleteCharForward() at the end of the last line leave the buffer as it
\* was; deleteCharBackward() elsewhere removes the one character or line
\* boundary before the cursor and leaves the cursor where that one began
\* (at column 0 of a row r > 0: rows r-1 and r joined, cursor at the old end
\* of row r-1); deleteCharForward() elsewhere removes the one character or
\* line boundary at the cursor and leaves the cursor where it was (at the end
\* of a row that is not the last: that row and the next joined).
C23_DeleteAtBoundaries ==
    /\ (last.op = "deleteCharBackward" /\ ~hasSelection(pre)) =>
          LET r == pre.m_cursorRow
              c == pre.m_cursorCol
              at == Offset(pre.m_lines, r, c)
          IN IF r = 0 /\ c = 0 THEN buf = pre
             ELSE /\ Flatten(buf.m_lines) = TextWithoutAt(pre.m_lines, at - 1)
                  /\ Len(buf.m_lines) = Len(pre.m_lines) - (IF c = 0 THEN 1 ELSE 0)
                  /\ Cursor(buf) = (IF c > 0 THEN <<r, c - 1>>
                                    ELSE <<r - 1, LineLen(pre, r - 1)>>)
    /\ (last.op = "deleteCharForward" /\ ~hasSelection(pre)) =>
          LET r == pre.m_cursorRow
              c == pre.m_cursorCol
              at == Offset(pre.m_lines, r, c)
          IN IF AtBufferEnd(pre) THEN buf = pre
             ELSE /\ Flatten(buf.m_lines) = TextWithoutAt(pre.m_lines, at)
                  /\ Len(buf.m_lines) =
                        Len(pre.m_lines) - (IF c = LineLen(pre, r) THEN 1 ELSE 0)
                  /\ Cursor(buf) = Cursor(pre)

\* C23 witness: deleteCharBackward() at column 0 of a non-empty row below a
\* non-empty row joined the two rows and left the cursor at the old end of
\* the upper one.
C23_Witness ==
    /\ last.op = "deleteCharBackward"
    /\ ~hasSelection(pre)
    /\ pre.m_cursorCol = 0
    /\ pre.m_cursorRow > 0
    /\ LineLen(pre, pre.m_cursorRow) > 0
    /\ LineLen(pre, pre.m_cursorRow - 1) > 0
    /\ Len(buf.m_lines) = Len(pre.m_lines) - 1
    /\ Cursor(buf) = <<pre.m_cursorRow - 1, LineLen(pre, pre.m_cursorRow - 1)>>

\* C23 witness (forward join): deleteCharForward() at the end of a non-empty
\* row above a non-empty row joined the two rows and left the cursor where
\* it was.
C23_WitnessForwardJoin ==
    /\ last.op = "deleteCharForward"
    /\ ~hasSelection(pre)
    /\ pre.m_cursorCol = LineLen(pre, pre.m_cursorRow)
    /\ pre.m_cursorCol > 0
    /\ pre.m_cursorRow < Len(pre.m_lines) - 1
    /\ LineLen(pre, pre.m_cursorRow + 1) > 0
    /\ Len(buf.m_lines) = Len(pre.m_lines) - 1
    /\ SameCursor(buf, pre)

\* C23 witness (no-op): deleteCharBackward() at (0,0) of an edited buffer
\* with content, or deleteCharForward() at the end of such a buffer, left it
\* as it was.
C23_WitnessNoOp ==
    /\ last.op \in {"deleteCharBackward", "deleteCharForward"}
    /\ ~hasSelection(pre)
    /\ pre.m_isEdited
    /\ Flatten(pre.m_lines) # <<>>
    /\ IF last.op = "deleteCharBackward" THEN Cursor(pre) = <<0, 0>> ELSE AtBufferEnd(pre)
    /\ buf = pre

SaveOps == {"saveAs", "save"}

\* C24: after a saveAs(p), or a save() on a buffer with a path, that
\* returned true, getFilePath() is the path written to and isEdited() is
\* false; the line array, the cursor, the selection anchor, the undo stack
\* and the redo stack are what they were before the call.
C24_SuccessfulSave ==
    (last.op \in SaveOps /\ last.ret) =>
        /\ last.path # <<>>
        /\ buf.m_filePath = last.path
        /\ ~buf.m_isEdited
        /\ buf.m_lines = pre.m_lines
        /\ SameCursor(buf, pre)
        /\ buf.m_selectionStart = pre.m_selectionStart
        /\ buf.m_undoStack = pre.m_undoStack
        /\ buf.m_redoStack = pre.m_redoStack

\* C24 witness: saveAs succeeded on an edited buffer that had no path or
\* another one, a selection and records on both stacks.
C24_Witness ==
    /\ last.op = "saveAs"
    /\ last.ret
    /\ pre.m_isEdited
    /\ pre.m_filePath # last.path
    /\ pre.m_undoStack # <<>>
    /\ pre.m_redoStack # <<>>
    /\ buf.m_filePath = last.path
    /\ ~buf.m_isEdited

\* C24 witness (save): save() succeeded on an edited buffer with a path.
C24_WitnessSave ==
    /\ last.op = "save"
    /\ last.ret
    /\ pre.m_isEdited
    /\ pre.m_undoStack # <<>>
    /\ buf.m_filePath = pre.m_filePath
    /\ ~buf.m_isEdited

C25_WitnessWrite ==
    /\ last.op = "saveAs"
    /\ last.io = "write_fails"
    /\ last.file.bytes # <<>>
    /\ pre.m_isEdited
    /\ ~last.ret
    /\ buf = pre

\* C25 witness (construction): a Buffer was constructed from a file that
\* cannot be opened.
C25_WitnessConstructed ==
    /\ last.op = "Buffer(path)"
    /\ ~last.file.readable
    /\ buf.m_filePath = <<>>
    /\ buf.m_lines = << <<>> >>

\* the scopes lookup and assign go through from Environment e: e, its
\* parent, and so on up to a root
RECURSIVE Chain(_, _)
Chain(heap, e) ==
    IF e = nullptr THEN <<>> ELSE <<e>> \o Chain(heap, heap[e].m_parent)

\* the scopes of the chain of e that bind the name, nearest first
Binders(heap, e, n) ==
    SelectSeq(Chain(heap, e), LAMBDA i : heap[i].m_scope[n] # absent)

\* C26: define(name, v) on a scope binds name to v there and changes no
\* other binding of any scope; lookup(name) gives the binding of the nearest
\* scope of the parent chain that binds the name, nothing when none does,
\* and changes nothing; assign(name, v) changes exactly that nearest binding
\* to v and returns true, and returns false and changes nothing when no scope
\* of the chain binds the name.
C26_EnvironmentScoping ==
    LET e == envLast.env
        n == envLast.name
        bs == Binders(envPre, e, n)
    IN /\ envLast.op = "define" =>
             envs = [envPre EXCEPT ![e].m_scope[n] = envLast.value]
       /\ envLast.op = "lookup" =>
             /\ envs = envPre
             /\ envLast.result =
                   (IF bs = <<>> THEN <<>> ELSE << envPre[bs[1]].m_scope[n] >>)
       /\ envLast.op = "assign" =>
             IF bs = <<>> THEN ~envLast.ret /\ envs = envPre
             ELSE /\ envLast.ret
                  /\ envs = [envPre EXCEPT ![bs[1]].m_scope[n] = envLast.value]

\* C26 witness: assign was called on a scope that does not bind the name
\* while its parent and its grandparent both bind it, with other values; the
\* parent's binding changed and the grandparent's did not.
C26_Witness ==
    /\ envLast.op = "assign"
    /\ Len(Chain(envPre, envLast.env)) = 3
    /\ Binders(envPre, envLast.env, envLast.name) = SubSeq(Chain(envPre, envLast.env), 2, 3)
    /\ envLast.ret
    /\ envs # envPre
    /\ envs[Chain(envPre, envLast.env)[3]] = envPre[Chain(envPre, envLast.env)[3]]

\* C26 witness (define): define was called on a scope whose parent binds the
\* same name; the parent's binding is what it was.
C26_WitnessDefine ==
    /\ envLast.op = "define"
    /\ envPre[envLast.env].m_parent # nullptr
    /\ envPre[envPre[envLast.env].m_parent].m_scope[envLast.name] \notin {absent, envLast.value}
    /\ envs[envPre[envLast.env].m_parent] = envPre[envPre[envLast.env].m_parent]

\* C26 witness (unbound): assign was called for a name no scope of the chain
\* binds while a sibling scope binds it; it returned false.
C26_WitnessUnbound ==
    /\ envLast.op = "assign"
    /\ Binders(envPre, envLast.env, envLast.name) = <<>>
    /\ \E i \in 1 .. Len(envPre) : envPre[i].m_scope[envLast.name] # absent
    /\ ~envLast.ret
    /\ envs = envPre

\* C27 as stated: evalArg(arg, env) evaluates arg in a fresh scope whose
\* parent is env. A symbol that env or an ancestor binds resolves to that
\* binding; a name bound by a Let during the evaluation is bound in env
\* afterwards exactly as before; an Assign to a name that env or an ancestor
\* binds succeeds and changes that binding, also when it is a binding of env
\* itself.
C27_EvalArgScope ==
    envLast.op = "evalArg" =>
        LET e == envLast.env
            arg == envLast.value
        IN /\ (arg.type = "Symbol" /\ Binders(envPre, e, arg.name) # <<>>) =>
                 /\ envLast.ret
                 /\ envLast.result = lookup(envPre, e, arg.name)
                 /\ envs = envPre
           /\ arg.type = "Let" => envs = envPre
           /\ (arg.type = "Assign" /\ Binders(envPre, e, arg.var) # <<>>) =>
                 /\ envLast.ret
                 /\ envs = assign(envPre, e, arg.var, IntExpr(2)).heap
                 /\ lookup(envs, e, arg.var) = << IntExpr(2) >>


-----------------------------------------------------------------------------
\* Editor (src/lite-cpp/src/Editor.cpp) and the editor builtins of the
\* scripting language (src/lite-cpp/src/lang/Builtin.cpp)

MaxCalls == 3        \* calls on the Editor per behaviour

NilExpr == [type |-> "Nil"]
StringExpr(s) == [type |-> "String", value |-> s]

\* argument nodes handed to a builtin: literals of each kind, 2^32 among the
\* integers, and a symbol no scope binds
Literals ==
    { NilExpr, IntExpr(0), IntExpr(1), IntExpr(-1), LongExpr(1, 0),
      StringExpr(<<"u", "p">>), SymbolExpr("x") }
ArgLists == SeqsUpTo(Literals, 2)

\* m_scriptEnv as the builtins see it: the root Environment
m_scriptEnv == << NewEnvironment(nullptr) >>

\* Editor::Editor: createNewBuffer(); switchToBuffer(0)
NewEditor ==
    [m_buffers |-> << BufferDefault >>, m_currentBufferIndex |-> 0, m_shouldExit |-> FALSE]

\* Editor::getCurrentBufferInternal() is not nullptr
hasCurrentBuffer(e) ==
    e.m_currentBufferIndex >= 0 /\ e.m_currentBufferIndex < Len(e.m_buffers)

getCurrentBufferInternal(e) == e.m_buffers[e.m_currentBufferIndex + 1]

\* Editor::createNewBuffer: the Editor after the call and the index returned
createNewBuffer(e) ==
    [editor |-> [e EXCEPT !.m_buffers = Append(@, BufferDefault)],
     ret |-> Len(e.m_buffers)]

\* Editor::switchToBuffer(int index)
switchToBuffer(e, index) ==
    IF index >= 0 /\ index < Len(e.m_buffers)
    THEN [editor |-> [e EXCEPT !.m_currentBufferIndex = index], ret |-> TRUE]
    ELSE [editor |-> e, ret |-> FALSE]

Editor_insertCharacter(e, c) ==
    IF hasCurrentBuffer(e)
    THEN [e EXCEPT !.m_buffers[e.m_currentBufferIndex + 1] = insertChar(@, c)]
    ELSE e

Editor_insertNewline(e) ==
    IF hasCurrentBuffer(e)
    THEN [e EXCEPT !.m_buffers[e.m_currentBufferIndex + 1] = insertNewline(@)]
    ELSE e

Editor_deleteBackward(e) ==
    IF hasCurrentBuffer(e)
    THEN [e EXCEPT !.m_buffers[e.m_currentBufferIndex + 1] = deleteCharBackward(@)]
    ELSE e

Editor_deleteForward(e) ==
    IF hasCurrentBuffer(e)
    THEN [e EXCEPT !.m_buffers[e.m_currentBufferIndex + 1] = deleteCharForward(@)]
    ELSE e

\* Editor::moveCursor(dir, selecting = false)
Editor_moveCursor(e, dir) ==
    IF hasCurrentBuffer(e)
    THEN [e EXCEPT !.m_buffers[e.m_currentBufferIndex + 1] = moveCursor(@, dir, FALSE)]
    ELSE e

\* Editor::gotoPosition(int line, int column): the cursor of the current
\* Buffer is set through its recording setter.  A negative int converted to
\* size_t is a value beyond every row and column a Buffer can have.
Editor_gotoPosition(e, line, column) ==
    IF hasCurrentBuffer(e)
    THEN [e EXCEPT !.m_buffers[e.m_currentBufferIndex + 1] =
             setCursorPosition(@, IF line < 0 THEN 2147483647 ELSE line,
                                  IF column < 0 THEN 2147483647 ELSE column)]
    ELSE e

\* Editor::startSelection
Editor_startSelection(e) ==
    IF hasCurrentBuffer(e)
    THEN [e EXCEPT !.m_buffers[e.m_currentBufferIndex + 1] = selectStart(@)]
    ELSE e

\* Editor::clearSelection
Editor_clearSelection(e) ==
    IF hasCurrentBuffer(e)
    THEN [e EXCEPT !.m_buffers[e.m_currentBufferIndex + 1] = unselect(@)]
    ELSE e

\* Editor::getSelectedText
Editor_getSelectedText(e) ==
    IF hasCurrentBuffer(e) THEN getSelectedText(getCurrentBufferInternal(e))
    ELSE <<>>

\* the outcome of a builtin: the Editor after the call, whether it returned
\* (ok) or threw std::runtime_error, and the value returned
Returned(e, value) == [editor |-> e, ok |-> TRUE, value |-> value]
Thrown(e) == [editor |-> e, ok |-> FALSE, value |-> absent]

\* checkArgCount does not throw
checkArgCount(args, expected) == Len(args) = expected

\* expectArgType<T> does not throw
expectArgType(T, v) == v.type = T

\* static_cast<int> of a long long: its low 32 bits
castToInt(v) == v.value

\* a long long compared with 0
sign(v) == IF v.high # 0 THEN v.high ELSE v.value

\* the iterations of a loop that runs |count| times.  A Buffer of an Editor
\* that served MaxCalls calls holds at most MaxCalls characters; after
\* MaxCalls + 2 iterations every further one finds the cursor at the end it
\* moves to and nothing selected, and changes nothing.
iterations(count) ==
    IF count.high # 0 \/ count.value > MaxCalls + 2 \/ count.value < 0 - (MaxCalls + 2)
    THEN MaxCalls + 2
    ELSE IF count.value < 0 THEN 0 - count.value ELSE count.value

\* one iteration of the loops of builtin_delete and builtin_move
loopBody(e, what) ==
    CASE what = "deleteBackward" -> Editor_deleteBackward(e)
      [] what = "deleteForward" -> Editor_deleteForward(e)
      [] OTHER -> Editor_moveCursor(e, what)

\* for (i = 0; i < n; ++i) body
RECURSIVE forLoop(_, _, _)
forLoop(e, what, n) ==
    IF n = 0 THEN e ELSE forLoop(loopBody(e, what), what, n - 1)

\* builtin_delete once its argument is evaluated
deleteCount(e, evaluatedArg) ==
    IF ~evaluatedArg.ok \/ ~expectArgType("Int", evaluatedArg.value) THEN Thrown(e)
    ELSE Returned(forLoop(e, IF sign(evaluatedArg.value) > 0 THEN "deleteBackward"
                             ELSE "deleteForward",
                          iterations(evaluatedArg.value)), NilExpr)

builtin_delete(args, e) ==
    IF ~checkArgCount(args, 1) THEN Thrown(e)
    ELSE deleteCount(e, evalArg(m_scriptEnv, 1, args[1]))

\* the Direction a string of builtin_move names, or <<>>
directionOf(dir_str) ==
    CASE dir_str = <<"u", "p">> -> <<"Up">>
      [] dir_str = <<"d", "o", "w", "n">> -> <<"Down">>
      [] dir_str = <<"l", "e", "f", "t">> -> <<"Left">>
      [] dir_str = <<"r", "i", "g", "h", "t">> -> <<"Right">>
      [] OTHER -> <<>>

\* builtin_move once its argument is evaluated
moveBy(e, evaluatedArg) ==
    IF ~evaluatedArg.ok THEN Thrown(e)
    ELSE IF evaluatedArg.value.type = "Int"
    THEN Returned(forLoop(e, IF sign(evaluatedArg.value) >= 0 THEN "Right" ELSE "Left",
                          iterations(evaluatedArg.value)), NilExpr)
    ELSE IF evaluatedArg.value.type = "String"
            /\ directionOf(evaluatedArg.value.value) # <<>>
    THEN Returned(Editor_moveCursor(e, directionOf(evaluatedArg.value.value)[1]), NilExpr)
    ELSE Thrown(e)

builtin_move(args, e) ==
    IF ~checkArgCount(args, 1) THEN Thrown(e)
    ELSE moveBy(e, evalArg(m_scriptEnv, 1, args[1]))

builtin_goto(args, e) ==
    IF ~checkArgCount(args, 2) THEN Thrown(e)
    ELSE LET evalRow == evalArg(m_scriptEnv, 1, args[1])
             evalCol == evalArg(m_scriptEnv, 1, args[2])
         IN IF ~evalRow.ok \/ ~evalCol.ok THEN Thrown(e)
            ELSE IF ~expectArgType("Int", evalRow.value) \/ ~expectArgType("Int", evalCol.value)
            THEN Thrown(e)
            ELSE Returned(Editor_gotoPosition(e, castToInt(evalRow.value),
                                              castToInt(evalCol.value)), NilExpr)

builtin_get_select(args, e) ==
    IF args # <<>> THEN Thrown(e)
    ELSE LET selectedOpt == Editor_getSelectedText(e)
         IN Returned(e, IF selectedOpt = <<>> THEN NilExpr
                        ELSE StringExpr(selectedOpt[1]))

builtin_select(args, e) ==
    IF args # <<>> THEN Thrown(e) ELSE Returned(Editor_startSelection(e), NilExpr)

builtin_unselect(args, e) ==
    IF args # <<>> THEN Thrown(e) ELSE Returned(Editor_clearSelection(e), NilExpr)

builtin_new_buf(args, e) ==
    IF args # <<>> THEN Thrown(e)
    ELSE LET r == createNewBuffer(e) IN Returned(r.editor, IntExpr(r.ret))

builtin_set_buf(args, e) ==
    IF ~checkArgCount(args, 1) THEN Thrown(e)
    ELSE LET evalIndex == evalArg(m_scriptEnv, 1, args[1])
         IN IF ~evalIndex.ok \/ ~expectArgType("Int", evalIndex.value) THEN Thrown(e)
            ELSE LET index == evalIndex.value
                     r == switchToBuffer(e, castToInt(index))
                 IN IF ~r.ret THEN Thrown(e) ELSE Returned(r.editor, index)

builtin_get_cur_buf(args, e) ==
    IF args # <<>> THEN Thrown(e)
    ELSE Returned(e, IntExpr(e.m_currentBufferIndex))

\* the record of a call on the Editor
EdOp(name, args, r) == [op |-> name, args |-> args, ok |-> r.ok, value |-> r.value]

EdInit ==
    /\ ed = NewEditor
    /\ edPre = NewEditor
    /\ edLast = EdOp("Editor", <<>>, Returned(NewEditor, NilExpr))
    /\ edSteps = 0
    /\ BufIdle /\ EnvIdle /\ ProbeIdle

EdStep(name, args, r) ==
    /\ edSteps < MaxCalls
    /\ edSteps' = edSteps + 1
    /\ edPre' = ed
    /\ ed' = r.editor
    /\ edLast' = EdOp(name, args, r)
    /\ UNCHANGED <<bufVars, envVars, probeVars>>

\* a key press handled by Editor::insertCharacter
InsertCharacter ==
    \E c \in Chars :
        EdStep("insertCharacter", << StringExpr(<<c>>) >>,
               Returned(Editor_insertCharacter(ed, c), NilExpr))

\* a key press handled by Editor::insertNewline
InsertNewlineKey ==
    EdStep("insertNewline", <<>>, Returned(Editor_insertNewline(ed), NilExpr))

BuiltinDelete ==
    \E args \in ArgLists : EdStep("delete", args, builtin_delete(args, ed))
BuiltinMove ==
    \E args \in ArgLists : EdStep("move", args, builtin_move(args, ed))
BuiltinGoto ==
    \E args \in ArgLists : EdStep("goto", args, builtin_goto(args, ed))
BuiltinGetSelect ==
    \E args \in ArgLists : EdStep("get-select", args, builtin_get_select(args, ed))
BuiltinSelect ==
    \E args \in ArgLists : EdStep("select", args, builtin_select(args, ed))
BuiltinUnselect ==
    \E args \in ArgLists : EdStep("unselect", args, builtin_unselect(args, ed))
BuiltinNewBuf ==
    \E args \in ArgLists : EdStep("new-buf", args, builtin_new_buf(args, ed))
BuiltinSetBuf ==
    \E args \in ArgLists : EdStep("set-buf", args, builtin_set_buf(args, ed))
BuiltinGetCurBuf ==
    \E args \in ArgLists : EdStep("get-cur-buf", args, builtin_get_cur_buf(args, ed))

EdNext ==
    \/ InsertCharacter
    \/ InsertNewlineKey
    \/ BuiltinDelete
    \/ BuiltinMove
    \/ BuiltinGoto
    \/ BuiltinGetSelect
    \/ BuiltinSelect
    \/ BuiltinUnselect
    \/ BuiltinNewBuf
    \/ BuiltinSetBuf
    \/ BuiltinGetCurBuf

EdSpec == EdInit /\ [][EdNext]_vars


\* the builtins C28 names and the arguments each expects: their number, and
\* whether a literal argument has a type the builtin accepts
ArgCheckedBuiltins ==
    {"delete", "move", "goto", "set-buf", "select", "unselect", "get-select",
     "new-buf", "get-cur-buf"}
ExpectedCount(name) ==
    CASE name = "goto" -> 2
      [] name \in {"delete", "move", "set-buf"} -> 1
      [] OTHER -> 0
AcceptedTypes(name) ==
    IF name = "move" THEN {"Int", "String", "Symbol"} ELSE {"Int"}
WrongCount(call) == Len(call.args) # ExpectedCount(call.op)
WrongType(call) ==
    /\ ~WrongCount(call)
    /\ \E i \in 1..Len(call.args) : call.args[i].type \notin AcceptedTypes(call.op)

\* set-buf was handed one integer that is no index of the buffer list
SetBufOutOfRange ==
    /\ edLast.op = "set-buf"
    /\ Len(edLast.args) = 1
    /\ edLast.args[1].type = "Int"
    /\ \/ edLast.args[1].high # 0
       \/ edLast.args[1].value < 0
       \/ edLast.args[1].value >= Len(edPre.m_buffers)

\* C28: a builtin among delete, move, goto, set-buf, select, unselect,
\* get-select, new-buf, get-cur-buf called with the wrong number of arguments
\* or an argument of the wrong type raises a runtime failure and leaves the
\* Editor and its buffers as they were; set-buf with an out-of-range index
\* raises a runtime failure and leaves the current buffer index unchanged.
C28_BuiltinArgumentErrors ==
    /\ (edLast.op \in ArgCheckedBuiltins /\ (WrongCount(edLast) \/ WrongType(edLast)))
          => (~edLast.ok /\ ed = edPre)
    /\ SetBufOutOfRange
          => (~edLast.ok /\ ed.m_currentBufferIndex = edPre.m_currentBufferIndex)


-----------------------------------------------------------------------------
\* Values of the language and isTruthy (src/lite-cpp/src/lang/Expr.cpp)

MaxNum == 2          \* largest magnitude of the numbers handed to isTruthy
MaxItems == 2        \* longest string and list handed to isTruthy

BoolExpr(b) == [type |-> "Bool", value |-> b]

\* a double: NaN, an infinity, or the finite value twice / 2 with its sign
\* bit, so that 0.0, -0.0 and fractions are among the values
FloatExpr(class, negative, twice) ==
    [type |-> "Float", class |-> class, negative |-> negative, twice |-> twice]

ListExpr(items) == [type |-> "List", items |-> items]

\* the values isTruthy is applied to
Values ==
    LET items == { NilExpr, BoolExpr(FALSE), IntExpr(0),
                   FloatExpr("finite", FALSE, 0), StringExpr(<<>>) }
    IN { NilExpr, LongExpr(1, 0) }
         \cup { BoolExpr(b) : b \in BOOLEAN }
         \cup { IntExpr(i) : i \in (0 - MaxNum)..MaxNum }
         \cup { FloatExpr("finite", n, t) : n \in BOOLEAN, t \in 0..MaxNum }
         \cup { FloatExpr("nan", FALSE, 0) }
         \cup { FloatExpr("inf", n, 0) : n \in BOOLEAN }
         \cup { StringExpr(s) : s \in SeqsUpTo(Chars, MaxItems) }
         \cup { SymbolExpr(n) : n \in Names }
         \cup { ListExpr(l) : l \in SeqsUpTo(items, MaxItems) }

\* val != 0.0 for a double: false exactly for 0.0 and -0.0
nonZero(val) == val.class # "finite" \/ val.twice # 0

isTruthy(expr) ==
    CASE expr.type = "Nil" -> FALSE
      [] expr.type = "Bool" -> expr.value
      [] expr.type = "Float" -> nonZero(expr)
      [] OTHER -> TRUE

TruthyInit ==
    /\ input \in { <<v>> : v \in Values }
    /\ output = <<>>
    /\ BufIdle /\ EnvIdle /\ EdIdle

\* isTruthy is applied to the value
IsTruthy ==
    /\ output = <<>>
    /\ output' = << isTruthy(input[1]) >>
    /\ UNCHANGED <<input, bufVars, envVars, edVars>>

TruthySpec == TruthyInit /\ [][IsTruthy]_vars

\* the value is False or None
FalseOrNone(v) == v.type = "Nil" \/ (v.type = "Bool" /\ v.value = FALSE)

\* C29: isTruthy is false only for False and None; it is true for every
\* other value, including integer 0, float 0.0, the empty string and the
\* empty list.
C29_Truthiness ==
    output # <<>> => (output[1] = FALSE <=> FalseOrNone(input[1]))


-----------------------------------------------------------------------------
\* Parser (src/lite-cpp/src/lang/Parser.cpp)

MaxSrcLen == 5       \* characters of the source text handed to parse

\* the characters of the source texts: two letters, a digit, a blank, the
\* unary operators and the parentheses
SourceChars == {"f", "a", "1", " ", "-", "!", "(", ")"}
Sources == SeqsUpTo(SourceChars, MaxSrcLen)

\* std::isspace, std::isdigit, std::isalpha and the lambda isValidSymbolChar
isspace(c) == c \in {" ", NL, CR, "\t"}
isdigit(c) == c \in {"0", "1", "2", "3", "4", "5", "6", "7", "8", "9"}
isalpha(c) ==
    c \in {"a", "b", "c", "d", "e", "f", "g", "h", "i", "j", "k", "l", "m",
           "n", "o", "p", "q", "r", "s", "t", "u", "v", "w", "x", "y", "z",
           "A", "B", "C", "D", "E", "F", "G", "H", "I", "J", "K", "L", "M",
           "N", "O", "P", "Q", "R", "S", "T", "U", "V", "W", "X", "Y", "Z"}
isValidSymbolChar(c) ==
    isalpha(c) \/ isdigit(c) \/ c \in {"-", "_", "?", "!", "+", "*", "/"}

\* Parser::isAtEnd and m_currentChar with m_position = pos
isAtEnd(src, pos) == pos >= Len(src)
m_currentChar(src, pos) == IF isAtEnd(src, pos) THEN "\\0" ELSE src[pos + 1]

\* the nodes the parser builds
UnaryExpr(type, operand) == [type |-> type, operand |-> operand]
ApplyExpr(function, args) == [type |-> "Apply", function |-> function, args |-> args]
DoExpr(expressions) == [type |-> "Do", expressions |-> expressions]

\* what a parsing function leaves: the node it returned and m_position, or
\* the parse error it threw
Parsed(expr, pos) == [ok |-> TRUE, expr |-> expr, pos |-> pos]
ParseError(pos) == [ok |-> FALSE, expr |-> NilExpr, pos |-> pos]

\* Parser::skipWhitespace: m_position after it
RECURSIVE skipWhitespace(_, _)
skipWhitespace(src, pos) ==
    IF ~isAtEnd(src, pos) /\ isspace(m_currentChar(src, pos))
    THEN skipWhitespace(src, pos + 1)
    ELSE pos

\* Parser::skipComment: m_position after it
RECURSIVE skipComment(_, _)
skipComment(src, pos) ==
    IF m_currentChar(src, pos) = "#"
    THEN LET RECURSIVE toLineEnd(_)
             toLineEnd(p) ==
                 IF ~isAtEnd(src, p) /\ m_currentChar(src, p) # NL
                 THEN toLineEnd(p + 1) ELSE p
         IN toLineEnd(pos)
    ELSE pos

\* m_position after the longest run of characters of a class from pos on
RECURSIVE scanDigits(_, _)
scanDigits(src, pos) ==
    IF ~isAtEnd(src, pos) /\ isdigit(m_currentChar(src, pos))
    THEN scanDigits(src, pos + 1) ELSE pos

\* std::stoll of a string of digits
RECURSIVE stoll(_)
stoll(numStr) ==
    IF numStr = <<>> THEN 0
    ELSE 10 * stoll(SubSeq(numStr, 1, Len(numStr) - 1))
           + CHOOSE d \in 0..9 :
               numStr[Len(numStr)] = <<"0", "1", "2", "3", "4", "5", "6", "7", "8", "9">>[d + 1]

\* Parser::parseInteger
parseInteger(src, pos) ==
    LET negative == m_currentChar(src, pos) = "-"
        start == IF negative THEN pos + 1 ELSE pos
        end == scanDigits(src, start)
        val == stoll(SubSeq(src, start + 1, end))
    IN IF ~isdigit(m_currentChar(src, start)) THEN ParseError(start)
       ELSE Parsed(IntExpr(IF negative THEN 0 - val ELSE val), end)

\* Parser::parseSymbolOrKeyword: the name read and m_position after it
RECURSIVE scanSymbol(_, _)
scanSymbol(src, pos) ==
    IF ~isAtEnd(src, pos) /\ isValidSymbolChar(m_currentChar(src, pos))
    THEN scanSymbol(src, pos + 1) ELSE pos

parseSymbolOrKeyword(src, pos) ==
    IF ~isValidSymbolChar(m_currentChar(src, pos)) \/ isdigit(m_currentChar(src, pos))
    THEN ParseError(pos)
    ELSE Parsed(SubSeq(src, pos + 1, scanSymbol(src, pos)), scanSymbol(src, pos))

\* the test of parseExpression for a character that starts an argument
startsArgument(c) ==
    isalpha(c) \/ isdigit(c) \/ c \in {"(", "[", "{", "'", "\""}

RECURSIVE parseExpression(_, _)
RECURSIVE parseArguments(_, _, _)
RECURSIVE parseAtom(_, _)
RECURSIVE parseFactor(_, _)
RECURSIVE parseGroup(_, _)

\* Parser::parseExpression
parseExpression(src, pos) ==
    LET apply(function, args) ==
            IF ~args.ok THEN args
            ELSE Parsed(ApplyExpr(function, args.expr), args.pos)
        arguments(function, p) ==
            IF ~isAtEnd(src, p) /\ startsArgument(m_currentChar(src, p))
            THEN apply(function, parseArguments(src, p, <<>>))
            ELSE Parsed(function, p)
        application(lhs) ==
            IF ~lhs.ok THEN lhs
            ELSE arguments(lhs.expr, skipWhitespace(src, lhs.pos))
    IN application(parseFactor(src, pos))

\* Variant of the inner loop of parseExpression that stops after one argument.
parseArgumentsFirstOnly(src, pos, args) ==
    LET push(arg) ==
            IF ~arg.ok THEN arg
            ELSE Parsed(Append(args, arg.expr), skipWhitespace(src, arg.pos))
    IN push(parseFactor(src, pos))

\* the inner loop of parseExpression: factors are collected as arguments
\* while the current character starts one
parseArguments(src, pos, args) ==
    LET push(arg) ==
            IF ~arg.ok THEN arg
            ELSE parseArguments(src, skipWhitespace(src, arg.pos),
                                Append(args, arg.expr))
    IN IF ~isAtEnd(src, pos) /\ startsArgument(m_currentChar(src, pos))
       THEN push(parseFactor(src, pos))
       ELSE Parsed(args, pos)

\* Parser::parseAtom, for sources without '.', '"', '[', '{' and quote
parseAtom(src, pos0) ==
    LET symbol(name) ==
            IF ~name.ok THEN name
            ELSE IF name.expr = <<"T", "r", "u", "e">>
            THEN Parsed(BoolExpr(TRUE), name.pos)
            ELSE IF name.expr = <<"F", "a", "l", "s", "e">>
            THEN Parsed(BoolExpr(FALSE), name.pos)
            ELSE IF name.expr = <<"N", "o", "n", "e">>
            THEN Parsed(NilExpr, name.pos)
            ELSE Parsed(SymbolExpr(name.expr), name.pos)
        atom(pos, c) ==
            IF isdigit(c) \/ (c = "-" /\ isdigit(m_currentChar(src, pos + 1)))
            THEN parseInteger(src, pos)
            ELSE IF c = "(" THEN parseGroup(src, pos)
            ELSE IF isalpha(c) \/ c = "_"
            THEN symbol(parseSymbolOrKeyword(src, pos))
            ELSE ParseError(pos)
        skipped(pos) == atom(pos, m_currentChar(src, pos))
    IN skipped(skipWhitespace(src, pos0))

\* Parser::parseFactor; parseTerm is parseAtom
parseFactor(src, pos0) ==
    LET unary(type, operand) ==
            IF ~operand.ok THEN operand
            ELSE Parsed(UnaryExpr(type, operand.expr), operand.pos)
        factor(pos, c) ==
            IF c = "-" THEN unary("Neg", parseFactor(src, pos + 1))
            ELSE IF c = "!" THEN unary("Not", parseFactor(src, pos + 1))
            ELSE parseAtom(src, pos)
        skipped(pos) == factor(pos, m_currentChar(src, pos))
    IN skipped(skipWhitespace(src, pos0))

\* Parser::parseGroup
parseGroup(src, pos) ==
    LET close(expr, p) ==
            IF m_currentChar(src, p) # ")" THEN ParseError(p)
            ELSE Parsed(expr, p + 1)
        group(expr) ==
            IF ~expr.ok THEN expr
            ELSE close(expr.expr, skipWhitespace(src, expr.pos))
    IN group(parseExpression(src, pos + 1))

\* the scan of Parser::parse for what follows an expression that no ';' ends:
\* only white space and comments remain from tempPos on
RECURSIVE onlyWhitespaceRemains(_, _)
onlyWhitespaceRemains(src, tempPos) ==
    LET afterComment(lineEnd) ==
            onlyWhitespaceRemains(src, IF lineEnd < Len(src) THEN lineEnd + 1
                                       ELSE lineEnd)
    IN IF tempPos >= Len(src) THEN TRUE
       ELSE IF isspace(src[tempPos + 1]) THEN onlyWhitespaceRemains(src, tempPos + 1)
       ELSE IF src[tempPos + 1] = "#" THEN afterComment(skipComment(src, tempPos))
       ELSE FALSE

\* the loop of Parser::parse, entered with m_position = pos
RECURSIVE parseLoop(_, _, _)
parseLoop(src, pos, expressions) ==
    LET separator(more, p2) ==
            IF isAtEnd(src, p2) THEN Parsed(more, p2)
            ELSE IF m_currentChar(src, p2) = ";"
            THEN parseLoop(src, skipWhitespace(src, p2 + 1), more)
            ELSE IF onlyWhitespaceRemains(src, p2) THEN Parsed(more, p2)
            ELSE ParseError(p2)
        expression(e) ==
            IF ~e.ok THEN e
            ELSE separator(Append(expressions, e.expr), skipWhitespace(src, e.pos))
        body(p1) ==
            IF isAtEnd(src, p1) THEN Parsed(expressions, p1)
            ELSE expression(parseExpression(src, p1))
    IN IF isAtEnd(src, pos) THEN Parsed(expressions, pos)
       ELSE body(skipWhitespace(src, skipComment(src, pos)))

\* Parser::parse
parse(sourceCode) ==
    LET result(r) ==
            IF ~r.ok THEN r
            ELSE IF Len(r.expr) = 1 THEN Parsed(r.expr[1], r.pos)
            ELSE Parsed(DoExpr(r.expr), r.pos)
    IN IF sourceCode = <<>> THEN Parsed(DoExpr(<<>>), 0)
       ELSE result(parseLoop(sourceCode, skipWhitespace(sourceCode, 0), <<>>))

ParseInit ==
    /\ input \in { <<s>> : s \in Sources }
    /\ output = <<>>
    /\ BufIdle /\ EnvIdle /\ EdIdle

\* the source text is parsed
Parse ==
    /\ output = <<>>
    /\ output' = << parse(input[1]) >>
    /\ UNCHANGED <<input, bufVars, envVars, edVars>>

ParseSpec == ParseInit /\ [][Parse]_vars


\* factors as the grammar describes them, each with the node it stands for:
\* a symbol, an integer, a group, and a term under a unary - or !
Factors ==
    { [text |-> <<"f">>, node |-> SymbolExpr(<<"f">>)],
      [text |-> <<"a">>, node |-> SymbolExpr(<<"a">>)],
      [text |-> <<"1">>, node |-> IntExpr(1)],
      [text |-> <<"(", "a", ")">>, node |-> SymbolExpr(<<"a">>)],
      [text |-> <<"-", "a">>, node |-> UnaryExpr("Neg", SymbolExpr(<<"a">>))],
      [text |-> <<"!", "a">>, node |-> UnaryExpr("Not", SymbolExpr(<<"a">>))],
      [text |-> <<"-", "f">>, node |-> UnaryExpr("Neg", SymbolExpr(<<"f">>))] }

\* the factors written one after the other, a blank between neighbours
RECURSIVE Juxtaposed(_)
Juxtaposed(fs) ==
    IF Len(fs) = 1 THEN fs[1].text
    ELSE fs[1].text \o <<" ">> \o Juxtaposed(Tail(fs))

\* the sequences of two or three factors whose juxtaposition is the source
\* text that was parsed
FactorsOfInput ==
    { fs \in UNION { [1..n -> Factors] : n \in 2..3 } :
        output # <<>> /\ Juxtaposed(fs) = input[1] }

\* the Apply node of the first factor to the factors after it
ApplyOf(fs) == ApplyExpr(fs[1].node, [i \in 1..(Len(fs) - 1) |-> fs[i + 1].node])

\* a factor after the first begins with a unary - or !
PrefixedArgument(fs) == \E i \in 2..Len(fs) : fs[i].text[1] \in {"-", "!"}

\* the statement of C30 as written: every argument may carry a unary prefix
C30_Original ==
    \A fs \in FactorsOfInput : output[1].ok /\ output[1].expr = ApplyOf(fs)

\* C30: a factor followed by one or more juxtaposed factors, none of the
\* following ones beginning with a unary - or !, parses to a single Apply
\* node whose function is the first factor (with its unary prefix, if any)
\* and whose arguments are the following factors in source order; when a
\* following factor begins with - or !, it is not taken as an argument and
\* parse raises a parse failure.
C30_ApplicationParsing ==
    \A fs \in FactorsOfInput :
        IF PrefixedArgument(fs) THEN ~output[1].ok
        ELSE output[1].ok /\ output[1].expr = ApplyOf(fs)

\* f a a was parsed: an Apply node with two arguments
C30_Witness ==
    /\ output # <<>>
    /\ input[1] = <<"f", " ", "a", " ", "a">>
    /\ output[1].ok /\ Len(output[1].expr.args) = 2

\* a first factor with a unary prefix was applied to an argument
C30_WitnessPrefixedFunction ==
    /\ \E fs \in FactorsOfInput : fs[1].text[1] \in {"-", "!"} /\ ~PrefixedArgument(fs)
    /\ output[1].ok

\* a following factor with a unary prefix ended in a parse failure
C30_WitnessPrefixedArgument ==
    /\ \E fs \in FactorsOfInput : PrefixedArgument(fs)
    /\ ~output[1].ok


-----------------------------------------------------------------------------
\* C33: undo makes progress: a call of undo() on a buffer whose undo stack is
\* not empty leaves the undo stack strictly shorter than it found it, so
\* repeated calls empty the stack.
C33_UndoShrinksStack ==
    (last.op = "undo" /\ pre.m_undoStack # <<>>)
        => Len(buf.m_undoStack) < Len(pre.m_undoStack)


-----------------------------------------------------------------------------
\* C34: a buffer whose content was never changed is never reported as
\* edited: after any sequence of setCursorPosition, moveCursor, selectStart,
\* unselect, undo and redo on a constructed buffer, isEdited() is false.
C34_UntouchedNotEdited == untouched => ~buf.m_isEdited

\* C35: the edited flag never hides unsaved changes: whenever isEdited() is
\* false, the line array is the one of the last successful save, or of the
\* construction if the buffer was never saved.
C35_CleanMeansSaved == ~buf.m_isEdited => buf.m_lines = clean


C36_WitnessEdited ==
    /\ hasSelection(buf)
    /\ buf.m_lines # origin.m_lines
    /\ buf.m_selectionStart # <<0, 0>>


\* C37: no selection survives a text edit: right after insertChar,
\* insertNewline, a non-empty insertString, deleteCharForward,
\* deleteCharBackward or deleteSelection returns, hasSelection() is false.
C37_EditClearsSelection ==
    (/\ last.op \in {"insertChar", "insertNewline", "insertString", "deleteCharForward",
                     "deleteCharBackward", "deleteSelection"}
     /\ (last.op = "insertString" => last.text # <<>>))
        => ~hasSelection(buf)

\* an edit was made while a non-empty selection was active
C37_Witness ==
    /\ last.op \in {"insertChar", "deleteCharBackward"}
    /\ NonEmptySelection(pre)
    /\ buf.m_lines # pre.m_lines

\* an edit was made while an empty selection was active
C37_WitnessEmpty ==
    /\ last.op \in {"insertString", "deleteCharForward", "deleteSelection"}
    /\ hasSelection(pre)
    /\ ~NonEmptySelection(pre)


\* no line holds a newline and no line ends in a carriage return
PlainLines(lines) ==
    \A i \in 1..Len(lines) :
        /\ \A k \in 1..Len(lines[i]) : lines[i][k] # NL
        /\ lines[i] = <<>> \/ lines[i][Len(lines[i])] # CR

\* C38: save/load round trip: after a successful saveAs(p) of a buffer whose
\* lines hold no newline and end in no carriage return, a Buffer constructed
\* from p has the same line array, an empty last line included.
C38_SaveLoadRoundTrip ==
    (last.op = "saveAs" /\ last.ret /\ PlainLines(buf.m_lines))
        => BufferFromFile(last.path[1], last.file).m_lines = buf.m_lines


-----------------------------------------------------------------------------
\* Editor: the buffer list (src/lite-cpp/src/Editor.cpp)

\* the files Editor::openFile is handed: none at the path, or one line
EditorFiles == { NoFile, [readable |-> TRUE, bytes |-> <<"a">>] }

\* the indexes handed to Editor::switchToBuffer
SwitchIndexes == -2 .. MaxCalls + 1

\* what the frontend answers: ask gives nullopt, yes or no; prompt gives
\* nullopt or a path
Confirmations == { <<>>, <<TRUE>>, <<FALSE>> }
Prompts == { <<>>, <<"g">> }

\* an Editor method returning bool or int: the Editor after it and the value
Answer(e, ret) == [editor |-> e, ret |-> ret]

\* Editor::nextBuffer
nextBuffer(e) ==
    IF Len(e.m_buffers) <= 1 THEN Answer(e, FALSE)
    ELSE switchToBuffer(e, (e.m_currentBufferIndex + 1) % Len(e.m_buffers))

\* Editor::prevBuffer
prevBuffer(e) ==
    IF Len(e.m_buffers) <= 1 THEN Answer(e, FALSE)
    ELSE switchToBuffer(e, (e.m_currentBufferIndex - 1 + Len(e.m_buffers))
                               % Len(e.m_buffers))

\* Editor::openFile
openFile(e, file) ==
    IF Len(e.m_buffers) = 1 /\ e.m_currentBufferIndex = 0 /\ ~e.m_buffers[1].m_isEdited
    THEN Answer([e EXCEPT !.m_buffers[1] = BufferFromFile("f", file)], TRUE)
    ELSE switchToBuffer([e EXCEPT !.m_buffers = Append(@, BufferFromFile("f", file))],
                        Len(e.m_buffers))

\* Editor::saveCurrentBuffer; without a file path it is saveCurrentBufferAs,
\* which asks the frontend for one
saveCurrentBuffer(e, prompt, io) ==
    LET saved(r) == Answer([e EXCEPT !.m_buffers[e.m_currentBufferIndex + 1] = r.buf], r.ret)
        saveCurrentBufferAs ==
            IF prompt = <<>> THEN Answer(e, FALSE)
            ELSE saved(saveAs(getCurrentBufferInternal(e), prompt[1], io))
    IN IF ~hasCurrentBuffer(e) THEN Answer(e, FALSE)
       ELSE IF getCurrentBufferInternal(e).m_filePath # <<>>
       THEN saved(save(getCurrentBufferInternal(e), io))
       ELSE saveCurrentBufferAs

\* Editor::requestExit
requestExit(e) == [e EXCEPT !.m_shouldExit = TRUE]

\* Editor::closeCurrentBuffer(force)
closeCurrentBuffer(e, force, confirm, prompt, io) ==
    LET adjust(e1) ==
            IF e1.m_buffers = <<>>
            THEN requestExit([e1 EXCEPT !.m_currentBufferIndex = -1])
            ELSE switchToBuffer(e1, Max(0, Min(e1.m_currentBufferIndex,
                                               Len(e1.m_buffers) - 1))).editor
        close(e0) ==
            Answer(adjust([e0 EXCEPT !.m_buffers = vecErase(@, e0.m_currentBufferIndex)]),
                   TRUE)
        afterSave(r) == IF ~r.ret THEN Answer(r.editor, FALSE) ELSE close(r.editor)
    IN IF ~hasCurrentBuffer(e) THEN Answer(e, FALSE)
       ELSE IF ~force /\ getCurrentBufferInternal(e).m_isEdited
       THEN IF confirm = <<>> THEN Answer(e, FALSE)
            ELSE IF confirm[1] THEN afterSave(saveCurrentBuffer(e, prompt, io))
            ELSE close(e)
       ELSE close(e)

\* the outcome of a method of the buffer list as EdStep records it: the
\* Editor after the call and the bool returned
Called(r) == Returned(r.editor, BoolExpr(r.ret))

CreateNewBuffer ==
    EdStep("createNewBuffer", <<>>,
           Returned(createNewBuffer(ed).editor, IntExpr(createNewBuffer(ed).ret)))

SwitchToBuffer ==
    \E index \in SwitchIndexes :
        EdStep("switchToBuffer", << IntExpr(index) >>, Called(switchToBuffer(ed, index)))

NextBuffer ==
    EdStep("nextBuffer", <<>>, Called(nextBuffer(ed)))

PrevBuffer ==
    EdStep("prevBuffer", <<>>, Called(prevBuffer(ed)))

OpenFile ==
    \E file \in EditorFiles :
        EdStep("openFile", <<>>, Called(openFile(ed, file)))

CloseCurrentBuffer ==
    \E force \in BOOLEAN, confirm \in Confirmations, prompt \in Prompts, io \in IoOutcomes :
        EdStep("closeCurrentBuffer", << BoolExpr(force) >>,
               Called(closeCurrentBuffer(ed, force, confirm, prompt, io)))

BufferListNext ==
    \/ InsertCharacter
    \/ CreateNewBuffer
    \/ SwitchToBuffer
    \/ NextBuffer
    \/ PrevBuffer
    \/ OpenFile
    \/ CloseCurrentBuffer

BufferListSpec == EdInit /\ [][BufferListNext]_vars

\* C39: the buffer list of the Editor and its current index agree: the list
\* is not empty and 0 <= current index < buffer count, or the list is empty,
\* the current index is -1 and exit has been requested; and switchToBuffer
\* with an index out of range returns false and leaves the index as it was.
C39_BufferListInvariant ==
    /\ \/ ed.m_buffers # <<>> /\ hasCurrentBuffer(ed)
       \/ ed.m_buffers = <<>> /\ ed.m_currentBufferIndex = -1 /\ ed.m_shouldExit
    /\ (/\ edLast.op = "switchToBuffer"
        /\ ~(edLast.args[1].value \in 0 .. Len(edPre.m_buffers) - 1))
           => (edLast.value = BoolExpr(FALSE)
               /\ ed.m_currentBufferIndex = edPre.m_currentBufferIndex)


-----------------------------------------------------------------------------
\* Scripts with comment lines and blank lines

MaxFill == 2         \* comment and blank lines inserted at one place

\* the top-level expressions of the scripts, and the lines inserted
ExprTexts == { <<"f">>, <<"f", " ", "a">>, <<"1">> }
CommentLine == <<"#", "a", NL>>
BlankLine == <<NL>>
Fillers == SeqsUpTo({CommentLine, BlankLine}, MaxFill)

\* a script: one or two top-level expressions, and the lines inserted before
\* them, between them (after the ';') and after them
Scripts ==
    { [exprs |-> es, before |-> b, between |-> m, after |-> a] :
        es \in SeqsUpTo(ExprTexts, 2) \ { <<>> }, b \in Fillers, m \in Fillers, a \in Fillers }

\* the lines of a filler, one after the other
RECURSIVE Concat(_)
Concat(lines) == IF lines = <<>> THEN <<>> ELSE lines[1] \o Concat(Tail(lines))

\* the text of a script with the given lines inserted: every expression on a
\* line of its own, a ';' after every one but the last
ScriptText(exprs, before, between, after) ==
    Concat(before)
    \o (IF Len(exprs) = 1 THEN exprs[1] \o <<NL>>
        ELSE exprs[1] \o <<";", NL>> \o Concat(between) \o exprs[2] \o <<NL>>)
    \o Concat(after)

Plain(script) == ScriptText(script.exprs, <<>>, <<>>, <<>>)
Decorated(script) == ScriptText(script.exprs, script.before, script.between, script.after)

CommentInit ==
    /\ input \in { <<script>> : script \in Scripts }
    /\ output = <<>>
    /\ BufIdle /\ EnvIdle /\ EdIdle

\* the script is parsed without and with the inserted lines
ParseBoth ==
    /\ output = <<>>
    /\ output' = << parse(Plain(input[1])), parse(Decorated(input[1])) >>
    /\ UNCHANGED <<input, bufVars, envVars, edVars>>

CommentSpec == CommentInit /\ [][ParseBoth]_vars

\* C31: white space and comments are skipped: a script with any number of
\* comment lines and blank lines inserted before, between (after a ';') or
\* after its top-level expressions parses without a failure to the tree of
\* the script without them.
C31_CommentsSkipped ==
    output # <<>> =>
        /\ output[1].ok
        /\ output[2].ok
        /\ output[2].expr = output[1].expr


-----------------------------------------------------------------------------
\* Scripts evaluated through the Editor (Editor::evaluateScript)

MaxTokens == 6       \* tokens of a script

\* the tokens the scripts are made of
Tokens == { <<"l", "e", "t">>, <<"x">>, <<"=">>, <<"5">>, <<";">> }
TokenLists == SeqsUpTo(Tokens, MaxTokens)

\* the text of a script: its tokens separated by blanks, a ';' directly
\* after the token before it
RECURSIVE Spell(_)
Spell(tokens) ==
    IF tokens = <<>> THEN <<>>
    ELSE IF Len(tokens) = 1 THEN tokens[1]
    ELSE IF tokens[2] = <<";">> THEN tokens[1] \o Spell(Tail(tokens))
    ELSE tokens[1] \o <<" ">> \o Spell(Tail(tokens))

\* the name of the Environment model a parsed symbol spells, if any
internName(chars) ==
    IF Len(chars) = 1 /\ chars[1] \in Names THEN << chars[1] >> ELSE <<>>

\* the outcome of an evaluation: the heap after it, whether it ended without
\* a failure, the value, and the kind of failure
Value(heap, v) == [heap |-> heap, ok |-> TRUE, value |-> v, failure |-> "none"]
Failure(heap, kind) == [heap |-> heap, ok |-> FALSE, value |-> absent, failure |-> kind]

\* Interpreter::evaluate of a node the parser built.  Scalars evaluate to
\* themselves; a symbol is looked up and is an unbound name when no scope
\* binds it; Do evaluates its expressions in order in the same environment
\* and yields the last value (nil if empty); Apply evaluates the function
\* position, and calling anything that is not a function is a failure.
RECURSIVE evaluateNode(_, _, _)
evaluateNode(heap, env, expr) ==
    LET found(name) ==
            IF name = <<>> \/ lookup(heap, env, name[1]) = <<>>
            THEN Failure(heap, "unbound name")
            ELSE Value(heap, lookup(heap, env, name[1])[1])
        called(f) == IF ~f.ok THEN f ELSE Failure(f.heap, "not callable")
        RECURSIVE evaluateDo(_, _, _)
        evaluateDo(h, expressions, value) ==
            LET rest(r) == IF ~r.ok THEN r
                           ELSE evaluateDo(r.heap, Tail(expressions), r.value)
            IN IF expressions = <<>> THEN Value(h, value)
               ELSE rest(evaluateNode(h, env, expressions[1]))
    IN CASE expr.type = "Symbol" -> found(internName(expr.name))
         [] expr.type = "Do" -> evaluateDo(heap, expr.expressions, NilExpr)
         [] expr.type = "Apply" -> called(evaluateNode(heap, env, expr.function))
         [] OTHER -> Value(heap, expr)

\* Editor::evaluateScript; evaluateExpression hands the node to an
\* Interpreter working on the root environment
evaluateScript(heap, scriptText) ==
    LET evaluateExpression(parsedExpr) ==
            IF ~parsedExpr.ok THEN Failure(heap, "parse failure")
            ELSE evaluateNode(heap, 1, parsedExpr.expr)
    IN evaluateExpression(parse(scriptText))

ScriptInit ==
    /\ input \in { <<tokens>> : tokens \in TokenLists }
    /\ output = <<>>
    /\ envs = m_scriptEnv
    /\ envPre = <<>>
    /\ envLast = [op |-> "none"]
    /\ BufIdle /\ EdIdle

\* a script is evaluated, and the result of evaluateScript recorded
Evaluated(r) ==
    /\ output' = Append(output, [ok |-> r.ok, value |-> r.value, failure |-> r.failure])
    /\ envs' = r.heap
    /\ UNCHANGED <<input, envPre, envLast, bufVars, edVars>>

\* the script is evaluated
EvaluateScript ==
    /\ output = <<>>
    /\ Evaluated(evaluateScript(envs, Spell(input[1])))

\* `x` is evaluated after the script
EvaluateX ==
    /\ Len(output) = 1
    /\ Evaluated(evaluateScript(envs, <<"x">>))

ScriptNext == EvaluateScript \/ EvaluateX

ScriptSpec == ScriptInit /\ [][ScriptNext]_vars

\* C32: let scoping through the script entry point: evaluating the script
\* `let x = 5; x` yields 5, a later evaluation of `x` against the root
\* environment fails with an unbound name, and the root environment never
\* gets a binding of x.
C32_LetScript ==
    input[1] = << <<"l", "e", "t">>, <<"x">>, <<"=">>, <<"5">>, <<";">>, <<"x">> >>
        => /\ Len(output) >= 1 => (output[1].ok /\ output[1].value = IntExpr(5))
           /\ Len(output) >= 2 => (~output[2].ok /\ output[2].failure = "unbound name")
           /\ ~binds(envs[1].m_scope, "x")

====
